---- MODULE Spec2Model ----
(***************************************************************************)
(* A model of dota-rest, a fluent builder over the platform's fetch:       *)
(*   RestClient.builder() .. build()   -> RestClient      (RestClient.ts)  *)
(*   client.get()/post()/...           -> RestRequestBuilder               *)
(*   builder.retrieve()                -> RestRequestRetriever.retrieve    *)
(*                                        -> RestUtils.createURI           *)
(*                                        -> RestUtils.performFetch        *)
(*                                     -> RestResponseResolver             *)
(*   resolver.toEntity()/toVoid()/toResponse()                             *)
(*                                                                         *)
(* JavaScript values that may be undefined are tagged records              *)
(* ([t |-> "undefined"], [t |-> "string", s |-> ...]); header maps are     *)
(* functions from header names to values, with case-sensitive names as in  *)
(* a JavaScript object; a URLSearchParams is the sequence of its pairs.    *)
(***************************************************************************)
EXTENDS Integers, Sequences, FiniteSets, TLC

VARIABLES cbuilder, client, builders, requests, resolvers, calls

vars == <<cbuilder, client, builders, requests, resolvers, calls>>

(***************************************************************************)
(* Bounds of the model.                                                    *)
(***************************************************************************)
MaxBuilders == 1
MaxRequests == 1
MaxDispatches == 2
MaxCalls == 2
MaxParams == 2

(***************************************************************************)
(* JavaScript values.                                                      *)
(***************************************************************************)
Undefined == [t |-> "undefined"]

Str(s) == [t |-> "string", s |-> s]

Obj(m) == [t |-> "object", m |-> m]

\* `${x}` : the string a template literal substitutes for x.
TemplateString(x) == IF x = Undefined THEN "undefined" ELSE x.s

Null == [t |-> "null"]

Bool(b) == [t |-> "boolean", b |-> b]

Num(n) == [t |-> "number", n |-> n]

\* An object literal with number-valued properties, in insertion order.
ObjectLiteral(entries) == [t |-> "literal", e |-> entries]

\* if (x)
Truthy(x) ==
    CASE x.t = "undefined" -> FALSE
      [] x.t = "null"      -> FALSE
      [] x.t = "boolean"   -> x.b
      [] x.t = "number"    -> x.n # 0
      [] x.t = "string"    -> x.s # ""
      [] OTHER             -> TRUE

RECURSIVE StringifyEntries(_)
StringifyEntries(es) ==
    IF es = <<>> THEN ""
    ELSE "\"" \o es[1][1] \o "\":" \o ToString(es[1][2])
         \o (IF Len(es) > 1 THEN "," \o StringifyEntries(Tail(es)) ELSE "")

\* JSON.stringify(x), for the values a body takes here: the JSON text, or
\* undefined for a value that has none (undefined, a function).
JSONStringify(x) ==
    CASE x.t = "null"    -> Str("null")
      [] x.t = "boolean" -> Str(IF x.b THEN "true" ELSE "false")
      [] x.t = "number"  -> Str(ToString(x.n))
      [] x.t = "string"  -> Str("\"" \o x.s \o "\"")
      [] x.t = "literal" -> Str("{" \o StringifyEntries(x.e) \o "}")
      [] OTHER           -> Undefined

\* {...x} for a header object that may be undefined.
Spread(x) == IF x = Undefined THEN <<>> ELSE x.m

\* {...a, ...b} on header maps: every key of either, b's value on collision.
SpreadMerge(a, b) ==
    [k \in (DOMAIN a) \cup (DOMAIN b) |-> IF k \in DOMAIN b THEN b[k] ELSE a[k]]

(***************************************************************************)
(* URLSearchParams.  toString() is the application/x-www-form-urlencoded   *)
(* serialisation of the pairs, in order, joined by "&"; the constructor    *)
(* parses such a text back into pairs.  Names and values are sequences of  *)
(* one-character strings; the serialised text is kept as its sequence of   *)
(* tokens (a literal character, "+", or a percent escape) so that it can   *)
(* be parsed, and Join makes the string of it.                             *)
(***************************************************************************)
UrlEncodeChar(c) ==
    CASE c = " " -> "+"
      [] c = "&" -> "%26"
      [] c = "=" -> "%3D"
      [] c = "+" -> "%2B"
      [] c = "/" -> "%2F"
      [] c = "?" -> "%3F"
      [] OTHER   -> c

UrlDecodeToken(tk) ==
    CASE tk = "+"   -> " "
      [] tk = "%26" -> "&"
      [] tk = "%3D" -> "="
      [] tk = "%2B" -> "+"
      [] tk = "%2F" -> "/"
      [] tk = "%3F" -> "?"
      [] OTHER      -> tk

UrlEncode(cs) == [i \in 1..Len(cs) |-> UrlEncodeChar(cs[i])]

UrlDecode(tks) == [i \in 1..Len(tks) |-> UrlDecodeToken(tks[i])]

RECURSIVE ParamsTokens(_)
ParamsTokens(ps) ==
    IF ps = <<>> THEN <<>>
    ELSE UrlEncode(ps[1][1]) \o <<"=">> \o UrlEncode(ps[1][2])
         \o (IF Len(ps) > 1 THEN <<"&">> \o ParamsTokens(Tail(ps)) ELSE <<>>)

RECURSIVE Join(_)
Join(tks) == IF tks = <<>> THEN "" ELSE Head(tks) \o Join(Tail(tks))

\* params.toString()
ParamsToString(ps) == Join(ParamsTokens(ps))

\* The position of the first token tk in tks, or 0.
RECURSIVE IndexOf(_, _, _)
IndexOf(tks, tk, i) ==
    IF i > Len(tks) THEN 0
    ELSE IF tks[i] = tk THEN i ELSE IndexOf(tks, tk, i + 1)

\* One "name=value" piece: split at the first "=", both sides decoded.
ParsePair(tks) ==
    LET e == IndexOf(tks, "=", 1)
    IN  IF e = 0 THEN <<UrlDecode(tks), <<>> >>
        ELSE <<UrlDecode(SubSeq(tks, 1, e - 1)), UrlDecode(SubSeq(tks, e + 1, Len(tks)))>>

\* new URLSearchParams(text): the pieces between "&", empty pieces skipped.
RECURSIVE ParseParams(_)
ParseParams(tks) ==
    IF tks = <<>> THEN <<>>
    ELSE LET a == IndexOf(tks, "&", 1)
             piece == IF a = 0 THEN tks ELSE SubSeq(tks, 1, a - 1)
             rest == IF a = 0 THEN <<>> ELSE SubSeq(tks, a + 1, Len(tks))
         IN  (IF piece = <<>> THEN <<>> ELSE <<ParsePair(piece)>>) \o ParseParams(rest)

(***************************************************************************)
(* RestUtils.createURI                                                     *)
(***************************************************************************)
\* Mutant: without a base URI the parameters are not appended.
createURI_dropsParams(baseURI, uri, params) ==
    IF baseURI # ""
    THEN LET url == baseURI \o TemplateString(uri)
         IN  IF Len(params) > 0
             THEN Str(url \o "?" \o ParamsToString(params))
             ELSE Str(url)
    ELSE uri

createURI(baseURI, uri, params) ==
    IF baseURI # ""
    THEN LET url == baseURI \o TemplateString(uri)
         IN  IF Len(params) > 0
             THEN Str(url \o "?" \o ParamsToString(params))
             ELSE Str(url)
    ELSE IF Len(params) > 0
         THEN Str(TemplateString(uri) \o "?" \o ParamsToString(params))
         ELSE uri


(***************************************************************************)
(* Program constants.                                                      *)
(***************************************************************************)
\* RestClientBuilder._timout
DefaultTimeout == 10000

\* The timeout the tests configure, in milliseconds.  It is the tick of the
\* model's clock: the timeouts of the model are multiples of it.
TickMs == 5000

HttpMethod == {"GET", "POST", "PUT", "PATCH", "DELETE"}

(***************************************************************************)
(* Response handlers (inspectors) and converters are named functions.      *)
(* The handler "noop" returns; "rejectNot200" throws when the status is    *)
(* not 200, as the handler of the README does.                             *)
(***************************************************************************)
Fn(name) == [t |-> "function", name |-> name]

HandlerThrows(h, status) == h = Fn("rejectNot200") /\ status # 200

(***************************************************************************)
(* RestClient.builder(): the RestClientBuilder and its build().            *)
(***************************************************************************)
NewClientBuilder ==
    [_baseurl |-> "", _headers |-> Undefined, _timout |-> DefaultTimeout,
     _handler |-> Undefined]

NoClient == [t |-> "undefined"]

\* new RestClient(config)
RestClientOf(cb) ==
    [t |-> "RestClient",
     config |-> [baseUrl |-> cb._baseurl, headers |-> cb._headers,
                 timout |-> cb._timout, handler |-> cb._handler]]

ClientBuilder_baseUrl(url) ==
    /\ cbuilder' = [cbuilder EXCEPT !._baseurl = url]
    /\ UNCHANGED <<client, builders, requests, resolvers, calls>>

ClientBuilder_defaultHeaders(h) ==
    /\ cbuilder' = [cbuilder EXCEPT !._headers = Obj(h)]
    /\ UNCHANGED <<client, builders, requests, resolvers, calls>>

\* Mutant: the built client reads the timeout from the client builder.
ClientBuilder_timeout_live(ms) ==
    /\ cbuilder' = [cbuilder EXCEPT !._timout = ms]
    /\ client' = IF client = NoClient THEN client
                 ELSE [client EXCEPT !.config.timout = ms]
    /\ UNCHANGED <<builders, requests, resolvers, calls>>

ClientBuilder_timeout(ms) ==
    /\ cbuilder' = [cbuilder EXCEPT !._timout = ms]
    /\ UNCHANGED <<client, builders, requests, resolvers, calls>>

ClientBuilder_handler(h) ==
    /\ cbuilder' = [cbuilder EXCEPT !._handler = h]
    /\ UNCHANGED <<client, builders, requests, resolvers, calls>>

\* The model follows the first client that the builder builds.
ClientBuilder_build ==
    /\ client = NoClient
    /\ client' = RestClientOf(cbuilder)
    /\ UNCHANGED <<cbuilder, builders, requests, resolvers, calls>>

(***************************************************************************)
(* RestRequestBuilder: constructor and setters.                            *)
(***************************************************************************)
NewRequestBuilder(setup) ==
    [_baseUri |-> IF Truthy(setup.baseUri) THEN setup.baseUri.s ELSE "",
     _uri |-> Undefined,
     _defaultHeaders |-> Spread(setup.headers),
     method |-> setup.method,
     _timeout |-> setup.timeout,
     _headers |-> <<>>,
     _params |-> <<>>,
     _body |-> Undefined,
     _handler |-> setup.handler]

\* The verb-appropriate default headers of a client's request.
JsonContentType == [k \in {"Content-type"} |-> "application/json"]

\* Mutant: the JSON content type is laid over the client's default headers.
VerbHeaders_forced(method, config) ==
    IF method \in {"POST", "PUT", "PATCH"}
    THEN SpreadMerge(Spread(config.headers), JsonContentType)
    ELSE Spread(config.headers)

\* Mutant: every verb injects the JSON content type.
VerbHeaders_always(method, config) ==
    SpreadMerge(JsonContentType, Spread(config.headers))

VerbHeaders(method, config) ==
    IF method \in {"POST", "PUT", "PATCH"}
    THEN SpreadMerge(JsonContentType, Spread(config.headers))
    ELSE Spread(config.headers)

\* Mutant: the verb methods seed the default timeout, not the client's.
RequestSetupOf_defaultTimeout(method, config) ==
    [method |-> method,
     headers |-> Obj(VerbHeaders(method, config)),
     baseUri |-> Str(config.baseUrl),
     timeout |-> DefaultTimeout,
     handler |-> config.handler]

RequestSetupOf(method, config) ==
    [method |-> method,
     headers |-> Obj(VerbHeaders(method, config)),
     baseUri |-> Str(config.baseUrl),
     timeout |-> config.timout,
     handler |-> config.handler]

\* client.post() / get() / patch() / put() / delete()
Verb(method) ==
    /\ client # NoClient
    /\ builders' = Append(builders, NewRequestBuilder(RequestSetupOf(method, client.config)))
    /\ UNCHANGED <<cbuilder, client, requests, resolvers, calls>>

RestClient_post == Verb("POST")

RestClient_get == Verb("GET")

RestClient_patch == Verb("PATCH")

RestClient_put == Verb("PUT")

RestClient_delete == Verb("DELETE")

BuilderIds == 1..Len(builders)

RequestBuilder_baseURI(b, baseURI) ==
    /\ builders' = [builders EXCEPT ![b]._baseUri = baseURI]
    /\ UNCHANGED <<cbuilder, client, requests, resolvers, calls>>

RequestBuilder_uri(b, uri) ==
    /\ builders' = [builders EXCEPT ![b]._uri = Str(uri)]
    /\ UNCHANGED <<cbuilder, client, requests, resolvers, calls>>

\* Mutant: the builders of a client share one per-request headers object.
RequestBuilder_header_shared(b, key, value) ==
    /\ builders' = [i \in BuilderIds |->
                      [builders[i] EXCEPT
                         !._headers = SpreadMerge(@, [k \in {key} |-> value])]]
    /\ UNCHANGED <<cbuilder, client, requests, resolvers, calls>>

RequestBuilder_header(b, key, value) ==
    /\ builders' = [builders EXCEPT
                      ![b]._headers = SpreadMerge(@, [k \in {key} |-> value])]
    /\ UNCHANGED <<cbuilder, client, requests, resolvers, calls>>

\* Mutant: headers() replaces the per-request headers.
RequestBuilder_headers_replace(b, header) ==
    /\ builders' = [builders EXCEPT ![b]._headers = header]
    /\ UNCHANGED <<cbuilder, client, requests, resolvers, calls>>

RequestBuilder_headers(b, header) ==
    /\ builders' = [builders EXCEPT ![b]._headers = SpreadMerge(@, header)]
    /\ UNCHANGED <<cbuilder, client, requests, resolvers, calls>>

\* Mutant: param() sets the value of a name that is already there.
RequestBuilder_param_set(b, key, value) ==
    /\ builders' = [builders EXCEPT ![b]._params =
          IF \E i \in 1..Len(@) : @[i][1] = key
          THEN [i \in 1..Len(@) |-> IF @[i][1] = key THEN <<key, value>> ELSE @[i]]
          ELSE Append(@, <<key, value>>)]
    /\ UNCHANGED <<cbuilder, client, requests, resolvers, calls>>

RequestBuilder_param(b, key, value) ==
    /\ builders' = [builders EXCEPT ![b]._params = Append(@, <<key, value>>)]
    /\ UNCHANGED <<cbuilder, client, requests, resolvers, calls>>

\* Mutant: params() adds its pairs to the pairs that are there.
RequestBuilder_params_merge(b, ps) ==
    /\ builders' = [builders EXCEPT ![b]._params = @ \o ParseParams(ParamsTokens(ps))]
    /\ UNCHANGED <<cbuilder, client, requests, resolvers, calls>>

RequestBuilder_params(b, ps) ==
    /\ builders' = [builders EXCEPT ![b]._params = ParseParams(ParamsTokens(ps))]
    /\ UNCHANGED <<cbuilder, client, requests, resolvers, calls>>

\* Mutant: the request in flight reads the timeout from its builder.
RequestBuilder_timeout_live(b, ms) ==
    /\ builders' = [builders EXCEPT ![b]._timeout = ms]
    /\ requests' = [r \in 1..Len(requests) |->
                      IF requests[r].builder = b
                      THEN [requests[r] EXCEPT !.timeout = ms, !.remaining = ms]
                      ELSE requests[r]]
    /\ UNCHANGED <<cbuilder, client, resolvers, calls>>

RequestBuilder_timeout(b, ms) ==
    /\ builders' = [builders EXCEPT ![b]._timeout = ms]
    /\ UNCHANGED <<cbuilder, client, requests, resolvers, calls>>

RequestBuilder_body(b, item) ==
    /\ builders' = [builders EXCEPT ![b]._body = item]
    /\ UNCHANGED <<cbuilder, client, requests, resolvers, calls>>


(***************************************************************************)
(* RestUtils.performFetch.  The transport call is a record of `requests`:  *)
(* what was handed to fetch and the state of the promise that fetch        *)
(* returned.  performFetch takes uri, method, headers and body from its    *)
(* argument: the timeout that retrieve() passes is not read, fetch is      *)
(* given no abort signal and no timer is set.                              *)
(***************************************************************************)
NoResult == [t |-> "none"]

Error(name) == [t |-> "error", name |-> name]

\* The RequestInit of the fetch call.
RequestInit(rb) ==
    [method |-> rb.method,
     headers |-> IF Truthy(rb.headers) THEN rb.headers ELSE Undefined,
     body |-> IF Truthy(rb.body) THEN rb.body ELSE Undefined]

\* Mutant: the call is given a signal and a timer is set for its timeout,
\* which nothing clears.
performFetch_armsTimer(rb, b) ==
    LET init == RequestInit(rb)
    IN  [builder |-> b,
         uri |-> rb.uri,
         method |-> init.method,
         headers |-> init.headers,
         body |-> init.body,
         signal |-> "active",
         timeout |-> rb.timeout,
         timer |-> IF rb.timeout > 0 THEN "armed" ELSE "none",
         remaining |-> rb.timeout,
         state |-> "pending",
         result |-> NoResult,
         bodyUsed |-> FALSE]

performFetch(rb, b) ==
    LET init == RequestInit(rb)
    IN  [builder |-> b,
         uri |-> rb.uri,
         method |-> init.method,
         headers |-> init.headers,
         body |-> init.body,
         signal |-> "none",
         timeout |-> rb.timeout,
         timer |-> "none",
         remaining |-> rb.timeout,
         state |-> "pending",
         result |-> NoResult,
         bodyUsed |-> FALSE]

(***************************************************************************)
(* RestRequestBuilder.retrieve -> RestRequestRetriever.retrieve            *)
(***************************************************************************)
\* Mutant: the default headers are laid over the per-request headers.
RequestBody_defaultsWin(bd) ==
    [uri |-> createURI(bd._baseUri, bd._uri, bd._params),
     method |-> bd.method,
     headers |-> Obj(SpreadMerge(bd._headers, bd._defaultHeaders)),
     timeout |-> bd._timeout,
     body |-> IF Truthy(bd._body) THEN JSONStringify(bd._body) ELSE Undefined]

\* Mutant: a body is attached for every value but undefined.
RequestBody_anyBody(bd) ==
    [uri |-> createURI(bd._baseUri, bd._uri, bd._params),
     method |-> bd.method,
     headers |-> Obj(SpreadMerge(bd._defaultHeaders, bd._headers)),
     timeout |-> bd._timeout,
     body |-> IF bd._body # Undefined THEN JSONStringify(bd._body) ELSE Undefined]

RequestBody(bd) ==
    [uri |-> createURI(bd._baseUri, bd._uri, bd._params),
     method |-> bd.method,
     headers |-> Obj(SpreadMerge(bd._defaultHeaders, bd._headers)),
     timeout |-> bd._timeout,
     body |-> IF Truthy(bd._body) THEN JSONStringify(bd._body) ELSE Undefined]

NewResolver(response, handler) ==
    [_response |-> response, _handler |-> handler, _converter |-> Undefined]

\* Mutant: retrieve() issues the transport call twice.
RequestBuilder_retrieve_twice(b) ==
    /\ requests' = requests \o << performFetch(RequestBody(builders[b]), b),
                                  performFetch(RequestBody(builders[b]), b) >>
    /\ resolvers' = Append(resolvers, NewResolver(Len(requests) + 1, builders[b]._handler))
    /\ UNCHANGED <<cbuilder, client, builders, calls>>

RequestBuilder_retrieve(b) ==
    /\ requests' = Append(requests, performFetch(RequestBody(builders[b]), b))
    /\ resolvers' = Append(resolvers, NewResolver(Len(requests) + 1, builders[b]._handler))
    /\ UNCHANGED <<cbuilder, client, builders, calls>>

RequestIds == 1..Len(requests)

ResolverIds == 1..Len(resolvers)

CallIds == 1..Len(calls)

(***************************************************************************)
(* The transport and the clock.  fetch settles with a response or rejects  *)
(* with a network error at any time.  The clock counts down the timeout    *)
(* that was passed for a pending call; nothing in the program watches it.  *)
(***************************************************************************)
\* The promise that fetch returned settles.
Settle(rq, state, result) ==
    [rq EXCEPT !.state = state, !.result = result]

Fetch_fulfil(r, response) ==
    /\ requests[r].state = "pending"
    /\ requests' = [requests EXCEPT ![r] = Settle(@, "fulfilled", response)]
    /\ UNCHANGED <<cbuilder, client, builders, resolvers, calls>>

Fetch_reject(r) ==
    /\ requests[r].state = "pending"
    /\ requests' = [requests EXCEPT ![r] = Settle(@, "rejected", Error("TypeError: fetch failed"))]
    /\ UNCHANGED <<cbuilder, client, builders, resolvers, calls>>

Elapse(rq) ==
    IF rq.state = "pending"
    THEN [rq EXCEPT !.remaining = IF @ > TickMs THEN @ - TickMs ELSE 0]
    ELSE rq

\* TickMs milliseconds pass.  Time is followed while a pending call has
\* time left of its timeout.
Tick ==
    /\ \E r \in RequestIds : requests[r].state = "pending" /\ requests[r].remaining > 0
    /\ requests' = [r \in RequestIds |-> Elapse(requests[r])]
    /\ UNCHANGED <<cbuilder, client, builders, resolvers, calls>>

(***************************************************************************)
(* Responses of the transport.                                             *)
(***************************************************************************)
\* new Response(text, init): a response with a body, an empty one included.
\* nullBody is response.body === null; text is what the body reads as.
Response(status, contentType, text) ==
    [t |-> "response", status |-> status, contentType |-> contentType, text |-> text,
     nullBody |-> FALSE]

\* new Response(null, init) and new Response(): a response without a body.
\* It reads as the empty text.
NullBodyResponse(status, contentType) ==
    [Response(status, contentType, "") EXCEPT !.nullBody = TRUE]

\* response.bodyUsed after response.json() / response.text() was called: a
\* body is marked used by its first read; a response without a body has
\* nothing to mark, and every read of it starts anew.
Disturbed(response) == ~response.nullBody

JsonText == "{\"key\":\"value\"}"

PlainText == "plain"

\* contentType.includes('application/json')
IncludesJson(ct) == ct.s \in {"application/json", "application/json; charset=utf-8"}

\* response.json(): the parsed value, or the SyntaxError of JSON.parse.
JsonParse(text) ==
    IF text = JsonText THEN [t |-> "parsed", of |-> text] ELSE Error("SyntaxError")

\* converter(json)
Convert(converter, json) == [t |-> "converted", by |-> converter.name, of |-> json]

\* ResponseEntity.create(response): the data is assigned afterwards.
ResponseEntity_create(response) ==
    [t |-> "ResponseEntity", status |-> response.status,
     headers |-> response.contentType, data |-> Undefined]

\* ResponseVoid.create(response)
ResponseVoid_create(response) ==
    [t |-> "ResponseVoid", status |-> response.status, headers |-> response.contentType]

(***************************************************************************)
(* RestResponseResolver.  A terminal method is a record of `calls`: it     *)
(* suspends at `await this._response` (pc "await"), toEntity suspends once *)
(* more on response.json() or response.text() (pc "json", "text"), and it  *)
(* ends (pc "done") resolved with a value or rejected with an error.       *)
(***************************************************************************)
Resolver_converter(res, converter) ==
    /\ resolvers' = [resolvers EXCEPT ![res]._converter = converter]
    /\ UNCHANGED <<cbuilder, client, builders, requests, calls>>

\* Mutant: handler() replaces the handler of every resolver.
Resolver_handler_all(res, handler) ==
    /\ resolvers' = [x \in ResolverIds |-> [resolvers[x] EXCEPT !._handler = handler]]
    /\ UNCHANGED <<cbuilder, client, builders, requests, calls>>

Resolver_handler(res, handler) ==
    /\ resolvers' = [resolvers EXCEPT ![res]._handler = handler]
    /\ UNCHANGED <<cbuilder, client, builders, requests, calls>>

NewCall(res, method) ==
    [resolver |-> res, method |-> method, pc |-> "await", outcome |-> "pending",
     value |-> NoResult, response |-> NoResult, inspected |-> 0, read |-> NoResult]

Invoke(res, method) ==
    /\ calls' = Append(calls, NewCall(res, method))
    /\ UNCHANGED <<cbuilder, client, builders, requests, resolvers>>

Resolver_toEntity(res) == Invoke(res, "toEntity")

Resolver_toResponse(res) == Invoke(res, "toResponse")

Resolver_toVoid(res) == Invoke(res, "toVoid")

Rejected(call, error) ==
    [call EXCEPT !.pc = "done", !.outcome = "rejected", !.value = error]

Resolved(call, value) ==
    [call EXCEPT !.pc = "done", !.outcome = "resolved", !.value = value]

\* Mutant: the handler runs for the first terminal call on a resolver only.
Inspect_memoised(call, handler) ==
    IF Truthy(handler)
         /\ ~\E c \in 1..Len(calls) :
               calls[c].resolver = call.resolver /\ calls[c].inspected > 0
    THEN [call EXCEPT !.inspected = @ + 1] ELSE call

\* if (this._handler) { this._handler(response) }
Inspect(call, handler) ==
    IF Truthy(handler) THEN [call EXCEPT !.inspected = @ + 1] ELSE call

\* Mutant: the body of a response can be read again.
BodyReadError_reusable(rq) == NoResult

\* response.json() / response.text(): the body of a response can be read
\* once; on a body that was read the promise returned is rejected.
BodyReadError(rq) ==
    IF rq.bodyUsed THEN Error("TypeError: body used") ELSE NoResult

\* Mutant: the terminal methods validate the status themselves.
AfterAwait_validating(call, rs, rq) ==
    IF rq.state = "rejected" THEN Rejected(call, rq.result)
    ELSE LET response == rq.result
             seen == Inspect([call EXCEPT !.response = response], rs._handler)
         IN  IF response.status >= 400
             THEN Rejected(seen, Error("HttpError"))
             ELSE IF Truthy(rs._handler) /\ HandlerThrows(rs._handler, response.status)
             THEN Rejected(seen, Error("HandlerError"))
             ELSE CASE call.method = "toResponse" -> Resolved(seen, response)
                    [] call.method = "toVoid" -> Resolved(seen, ResponseVoid_create(response))
                    [] call.method = "toEntity" ->
                         LET entity == ResponseEntity_create(response)
                             ct == response.contentType
                             mode == IF Truthy(ct) /\ IncludesJson(ct) THEN "json" ELSE "text"
                         IN  [seen EXCEPT !.pc = mode, !.value = entity,
                                          !.read = BodyReadError(rq)]

\* Mutant: a rejection of the pending response is caught and swallowed.
AfterAwait_swallow(call, rs, rq) ==
    IF rq.state = "rejected" THEN Resolved(call, Undefined)
    ELSE LET response == rq.result
             seen == Inspect([call EXCEPT !.response = response], rs._handler)
         IN  IF Truthy(rs._handler) /\ HandlerThrows(rs._handler, response.status)
             THEN Rejected(seen, Error("HandlerError"))
             ELSE CASE call.method = "toResponse" -> Resolved(seen, response)
                    [] call.method = "toVoid" -> Resolved(seen, ResponseVoid_create(response))
                    [] call.method = "toEntity" ->
                         LET entity == ResponseEntity_create(response)
                             ct == response.contentType
                             mode == IF Truthy(ct) /\ IncludesJson(ct) THEN "json" ELSE "text"
                         IN  [seen EXCEPT !.pc = mode, !.value = entity,
                                          !.read = BodyReadError(rq)]

\* Mutant: an exception of the handler is caught and the projection goes on.
AfterAwait_catchesHandler(call, rs, rq) ==
    IF rq.state = "rejected" THEN Rejected(call, rq.result)
    ELSE LET response == rq.result
             seen == Inspect([call EXCEPT !.response = response], rs._handler)
         IN  IF FALSE
             THEN Rejected(seen, Error("HandlerError"))
             ELSE CASE call.method = "toResponse" -> Resolved(seen, response)
                    [] call.method = "toVoid" -> Resolved(seen, ResponseVoid_create(response))
                    [] call.method = "toEntity" ->
                         LET entity == ResponseEntity_create(response)
                             ct == response.contentType
                             mode == IF Truthy(ct) /\ IncludesJson(ct) THEN "json" ELSE "text"
                         IN  [seen EXCEPT !.pc = mode, !.value = entity,
                                          !.read = BodyReadError(rq)]

\* Mutant: a rejection of the pending response is wrapped in another error.
AfterAwait_wraps(call, rs, rq) ==
    IF rq.state = "rejected" THEN Rejected(call, Error("RestError"))
    ELSE LET response == rq.result
             seen == Inspect([call EXCEPT !.response = response], rs._handler)
         IN  IF Truthy(rs._handler) /\ HandlerThrows(rs._handler, response.status)
             THEN Rejected(seen, Error("HandlerError"))
             ELSE CASE call.method = "toResponse" -> Resolved(seen, response)
                    [] call.method = "toVoid" -> Resolved(seen, ResponseVoid_create(response))
                    [] call.method = "toEntity" ->
                         LET entity == ResponseEntity_create(response)
                             ct == response.contentType
                             mode == IF Truthy(ct) /\ IncludesJson(ct) THEN "json" ELSE "text"
                         IN  [seen EXCEPT !.pc = mode, !.value = entity,
                                          !.read = BodyReadError(rq)]

\* The terminal method from `await this._response` to its next suspension.
\* What the call this._handler(response) returns when it does not throw: an
\* async handler returns a promise, rejected when its body throws; any other
\* handler returns undefined.
HandlerReturn(h, status) ==
    IF h = Fn("asyncRejectNot200")
    THEN [t |-> "promise",
          state |-> IF status # 200 THEN "rejected" ELSE "fulfilled",
          result |-> IF status # 200 THEN Error("HandlerError") ELSE Undefined]
    ELSE Undefined

\* Mutant: the terminal method awaits what the handler returns.
AfterAwait_awaitsHandler(call, rs, rq) ==
    IF rq.state = "rejected" THEN Rejected(call, rq.result)
    ELSE LET response == rq.result
             seen == Inspect([call EXCEPT !.response = response], rs._handler)
             returned == HandlerReturn(rs._handler, response.status)
         IN  IF Truthy(rs._handler) /\ HandlerThrows(rs._handler, response.status)
             THEN Rejected(seen, Error("HandlerError"))
             ELSE IF Truthy(rs._handler) /\ returned.t = "promise"
                       /\ returned.state = "rejected"
             THEN Rejected(seen, returned.result)
             ELSE CASE call.method = "toResponse" -> Resolved(seen, response)
                    [] call.method = "toVoid" -> Resolved(seen, ResponseVoid_create(response))
                    [] call.method = "toEntity" ->
                         LET entity == ResponseEntity_create(response)
                             ct == response.contentType
                             mode == IF Truthy(ct) /\ IncludesJson(ct) THEN "json" ELSE "text"
                         IN  [seen EXCEPT !.pc = mode, !.value = entity,
                                          !.read = BodyReadError(rq)]

\* Mutant: the handler runs before the outcome of the pending response is
\* looked at.
AfterAwait_inspectsRejected(call, rs, rq) ==
    IF rq.state = "rejected" THEN Rejected(Inspect(call, rs._handler), rq.result)
    ELSE LET response == rq.result
             seen == Inspect([call EXCEPT !.response = response], rs._handler)
         IN  IF Truthy(rs._handler) /\ HandlerThrows(rs._handler, response.status)
             THEN Rejected(seen, Error("HandlerError"))
             ELSE CASE call.method = "toResponse" -> Resolved(seen, response)
                    [] call.method = "toVoid" -> Resolved(seen, ResponseVoid_create(response))
                    [] call.method = "toEntity" ->
                         LET entity == ResponseEntity_create(response)
                             ct == response.contentType
                             mode == IF Truthy(ct) /\ IncludesJson(ct) THEN "json" ELSE "text"
                         IN  [seen EXCEPT !.pc = mode, !.value = entity,
                                          !.read = BodyReadError(rq)]

AfterAwait(call, rs, rq) ==
    IF rq.state = "rejected" THEN Rejected(call, rq.result)
    ELSE LET response == rq.result
             seen == Inspect([call EXCEPT !.response = response], rs._handler)
         IN  IF Truthy(rs._handler) /\ HandlerThrows(rs._handler, response.status)
             THEN Rejected(seen, Error("HandlerError"))
             ELSE CASE call.method = "toResponse" -> Resolved(seen, response)
                    [] call.method = "toVoid" -> Resolved(seen, ResponseVoid_create(response))
                    [] call.method = "toEntity" ->
                         LET entity == ResponseEntity_create(response)
                             ct == response.contentType
                             mode == IF Truthy(ct) /\ IncludesJson(ct) THEN "json" ELSE "text"
                         IN  [seen EXCEPT !.pc = mode, !.value = entity,
                                          !.read = BodyReadError(rq)]

\* Mutant: the transport call is issued by the terminal method, once more.
Resume_refetch(c) ==
    LET call == calls[c]
        rs == resolvers[call.resolver]
        rq == requests[rs._response]
        next == Resolved(call, rq.result)
    IN  /\ call.pc = "await"
        /\ rq.state # "pending"
        /\ calls' = [calls EXCEPT ![c] = next]
        /\ requests' = Append(requests,
                              performFetch(RequestBody(builders[rq.builder]), rq.builder))
        /\ UNCHANGED <<cbuilder, client, builders, resolvers>>

\* Mutant: every terminal method reads the body of the response.
Resume_readsBody(c) ==
    LET call == calls[c]
        rs == resolvers[call.resolver]
        rq == requests[rs._response]
        next == AfterAwait(call, rs, rq)
    IN  /\ call.pc = "await"
        /\ rq.state # "pending"
        /\ calls' = [calls EXCEPT ![c] = next]
        /\ requests' = [requests EXCEPT
                          ![rs._response].bodyUsed =
                             @ \/ (rq.state = "fulfilled" /\ Disturbed(rq.result))]
        /\ UNCHANGED <<cbuilder, client, builders, resolvers>>

Resume(c) ==
    LET call == calls[c]
        rs == resolvers[call.resolver]
        rq == requests[rs._response]
        next == AfterAwait(call, rs, rq)
    IN  /\ call.pc = "await"
        /\ rq.state # "pending"
        /\ calls' = [calls EXCEPT ![c] = next]
        /\ requests' = [requests EXCEPT
                          ![rs._response].bodyUsed =
                             @ \/ (next.pc \in {"json", "text"} /\ Disturbed(rq.result))]
        /\ UNCHANGED <<cbuilder, client, builders, resolvers>>

\* Mutant: the converter is applied to a body read as text as well.
AfterBody_convertsText(call, rs, rq) ==
    IF call.read # NoResult THEN Rejected(call, call.read)
    ELSE IF call.pc = "json"
    THEN LET json == JsonParse(rq.result.text)
         IN  IF json.t = "error" THEN Rejected(call, json)
             ELSE Resolved(call, [call.value EXCEPT
                     !.data = IF Truthy(rs._converter) THEN Convert(rs._converter, json)
                              ELSE json])
    ELSE Resolved(call, [call.value EXCEPT
            !.data = IF Truthy(rs._converter)
                     THEN Convert(rs._converter, Str(rq.result.text))
                     ELSE Str(rq.result.text)])

\* Mutant: a body that does not parse as JSON is handed over as text.
AfterBody_fallbackText(call, rs, rq) ==
    IF call.read # NoResult THEN Rejected(call, call.read)
    ELSE IF call.pc = "json"
    THEN LET json == JsonParse(rq.result.text)
         IN  IF json.t = "error"
             THEN Resolved(call, [call.value EXCEPT !.data = Str(rq.result.text)])
             ELSE Resolved(call, [call.value EXCEPT
                     !.data = IF Truthy(rs._converter) THEN Convert(rs._converter, json)
                              ELSE json])
    ELSE Resolved(call, [call.value EXCEPT !.data = Str(rq.result.text)])

\* toEntity from the settling of response.json() / response.text() to its end.
AfterBody(call, rs, rq) ==
    IF call.read # NoResult THEN Rejected(call, call.read)
    ELSE IF call.pc = "json"
    THEN LET json == JsonParse(rq.result.text)
         IN  IF json.t = "error" THEN Rejected(call, json)
             ELSE Resolved(call, [call.value EXCEPT
                     !.data = IF Truthy(rs._converter) THEN Convert(rs._converter, json)
                              ELSE json])
    ELSE Resolved(call, [call.value EXCEPT !.data = Str(rq.result.text)])

BodyRead(c) ==
    LET call == calls[c]
        rs == resolvers[call.resolver]
        rq == requests[rs._response]
    IN  /\ call.pc \in {"json", "text"}
        /\ calls' = [calls EXCEPT ![c] = AfterBody(call, rs, rq)]
        /\ UNCHANGED <<cbuilder, client, builders, requests, resolvers>>


(***************************************************************************)
(* Spec: the life of the requests of one builder.  A client has been built *)
(* with the default timeout and some handler, and get() has returned a     *)
(* builder.  The builder is given a timeout and dispatched with            *)
(* retrieve(); the transport settles the call, or never does, while time   *)
(* passes; the terminal methods project the outcome.                       *)
(***************************************************************************)
Timeouts == {TickMs, 2 * TickMs}

Handlers == {Undefined, Fn("rejectNot200")}

Responses ==
    {Response(200, Str("application/json"), JsonText),
     Response(404, Str("text/plain"), PlainText),
     NullBodyResponse(204, Str("text/plain"))}

Init ==
    /\ \E h \in Handlers :
          cbuilder = [NewClientBuilder EXCEPT !._handler = h]
    /\ client = RestClientOf(cbuilder)
    /\ builders = <<NewRequestBuilder(RequestSetupOf("GET", client.config))>>
    /\ requests = <<>>
    /\ resolvers = <<>>
    /\ calls = <<>>

Transport ==
    \/ \E r \in RequestIds, response \in Responses : Fetch_fulfil(r, response)
    \/ \E r \in RequestIds : Fetch_reject(r)
    \/ Tick

Terminal ==
    \/ \E res \in ResolverIds : Len(calls) < MaxCalls /\ Resolver_toEntity(res)
    \/ \E res \in ResolverIds : Len(calls) < MaxCalls /\ Resolver_toResponse(res)
    \/ \E res \in ResolverIds : Len(calls) < MaxCalls /\ Resolver_toVoid(res)
    \/ \E c \in CallIds : Resume(c)
    \/ \E c \in CallIds : BodyRead(c)

Next ==
    \/ \E b \in BuilderIds, ms \in Timeouts : RequestBuilder_timeout(b, ms)
    \/ \E b \in BuilderIds : Len(requests) < MaxRequests /\ RequestBuilder_retrieve(b)
    \/ Transport
    \/ Terminal

Spec == Init /\ [][Next]_vars


(***************************************************************************)
(* FairSpec: Spec under the scheduling of the event loop.  Time passes and *)
(* a continuation whose promise has settled is run.  Nothing obliges the   *)
(* transport to settle a call.                                             *)
(***************************************************************************)
FairSpec ==
    /\ Spec
    /\ WF_vars(Tick)
    /\ \A c \in 1..MaxCalls : WF_vars(c \in CallIds /\ Resume(c))
    /\ \A c \in 1..MaxCalls : WF_vars(c \in CallIds /\ BodyRead(c))

(***************************************************************************)
(* SpecReuse: one builder dispatched more than once.  As Spec, without the *)
(* terminal methods.                                                       *)
(***************************************************************************)
NextReuse ==
    \/ \E b \in BuilderIds, ms \in Timeouts : RequestBuilder_timeout(b, ms)
    \/ \E b \in BuilderIds : Len(requests) < MaxDispatches /\ RequestBuilder_retrieve(b)
    \/ Transport

SpecReuse == Init /\ [][NextReuse]_vars

(***************************************************************************)
(* Properties of the life of a request.                                    *)
(***************************************************************************)
RequestOf(res) == requests[resolvers[res]._response]

CallRequest(c) == RequestOf(calls[c].resolver)

Resumed(c) == calls[c].pc # "await"


\* C1: every resolver has exactly one transport call, made by retrieve():
\* the transport calls and the resolvers correspond one to one in every
\* state, whatever terminal methods have been invoked (none, one or several
\* on the same resolver), and a terminal method that has passed its await
\* has received the outcome of that one call.
C1_SingleTransportCall ==
    /\ Len(requests) = Len(resolvers)
    /\ \A res \in ResolverIds :
          /\ resolvers[res]._response \in RequestIds
          /\ \A other \in ResolverIds :
                other # res => resolvers[other]._response # resolvers[res]._response
    /\ \A c \in CallIds :
          Resumed(c) =>
             /\ CallRequest(c).state # "pending"
             /\ CallRequest(c).state = "fulfilled" => calls[c].response = CallRequest(c).result
             /\ CallRequest(c).state = "rejected" => calls[c].value = CallRequest(c).result

\* Two different terminal methods have ended on the same resolver, after one
\* transport call.
C1_Witness ==
    \E c1 \in CallIds, c2 \in CallIds :
       /\ calls[c1].resolver = calls[c2].resolver
       /\ calls[c1].method = "toEntity" /\ calls[c2].method = "toResponse"
       /\ calls[c1].outcome = "resolved" /\ calls[c2].outcome = "resolved"
       /\ Len(requests) = 1

\* C2: every transport call carries an abort signal; a transport call does
\* not stay pending forever, because it is aborted when its timeout has
\* elapsed and the transport has not settled it; and a terminal method does
\* not stay pending forever either.
C2_TimeoutRejects ==
    /\ [](\A r \in RequestIds : requests[r].signal # "none")
    /\ \A r \in 1..MaxRequests :
          (r \in RequestIds) ~> (r \in RequestIds /\ requests[r].state # "pending")
    /\ \A c \in 1..MaxCalls :
          (c \in CallIds) ~> (c \in CallIds /\ calls[c].outcome # "pending")

\* C4: the deferred cancellation of a request does not outlive its transport
\* call: in no state has a request whose transport call has settled,
\* fulfilled or rejected, a timer that is armed.
C4_NoTimerOutlivesRequest ==
    \A r \in RequestIds :
       requests[r].state # "pending" => requests[r].timer # "armed"

\* One transport call has fulfilled and another has rejected, each with time
\* left of its timeout, and neither has an armed timer.
C4_Witness ==
    \E r1, r2 \in RequestIds :
       /\ requests[r1].state = "fulfilled" /\ requests[r1].remaining > 0
       /\ requests[r2].state = "rejected" /\ requests[r2].remaining > 0
       /\ requests[r1].timer # "armed"
       /\ requests[r2].timer # "armed"

\* C5: after the transport call of a request has rejected, the request
\* stays as it is and no step other than a
\* retrieve() issues a transport call; a terminal method that passes its
\* await on the request ends rejected with the error of the transport call.
C5_NoRetry ==
    [][\A r \in RequestIds :
          requests[r].state = "rejected" =>
             /\ requests'[r] = requests[r]
             /\ Len(requests') > Len(requests) => Len(resolvers') > Len(resolvers)
             /\ \A c \in CallIds :
                   (resolvers[calls[c].resolver]._response = r
                      /\ calls[c].pc = "await" /\ calls'[c].pc # "await") =>
                      /\ calls'[c].pc = "done"
                      /\ calls'[c].outcome = "rejected"
                      /\ calls'[c].value = requests[r].result]_vars

\* Terminal methods have been rejected with the network error of the one
\* transport call of their request.
C5_Witness ==
    \E c \in CallIds :
       /\ calls[c].outcome = "rejected"
       /\ calls[c].value = Error("TypeError: fetch failed")
       /\ Len(requests) = 1

\* C6 as stated: at most one transport call is ever created from a builder.
C6_OnePerBuilder ==
    \A b \in BuilderIds : Cardinality({r \in RequestIds : requests[r].builder = b}) <= 1

\* C6 (amended): there is one pending response per retrieve() call, not per
\* builder.  A step creates at most one transport call, and it creates it
\* together with one resolver bound to it; earlier transport calls and
\* resolvers stay bound as they were.
C6_OnePerRetrieve ==
    [][/\ Len(requests') \in {Len(requests), Len(requests) + 1}
       /\ Len(resolvers') - Len(resolvers) = Len(requests') - Len(requests)
       /\ Len(requests') > Len(requests) =>
             /\ resolvers'[Len(resolvers')]._response = Len(requests')
             /\ requests'[Len(requests')].state = "pending"
       /\ \A res \in ResolverIds : resolvers'[res]._response = resolvers[res]._response
       /\ \A r \in RequestIds : requests'[r].builder = requests[r].builder]_vars

\* The same builder has been dispatched twice: two transport calls, two
\* resolvers.
C6_Witness ==
    /\ Len(requests) = 2
    /\ requests[1].builder = requests[2].builder
    /\ Len(resolvers) = 2
    /\ resolvers[1]._response # resolvers[2]._response


(***************************************************************************)
(* SpecURI: the URI of a dispatched request.  A builder is constructed     *)
(* with or without a base URI, as new RestRequestBuilder(setup) does; its  *)
(* base URI, path and parameters are set in any order, and retrieve()      *)
(* dispatches it.                                                          *)
(***************************************************************************)
BaseURIs == {"", "https://api.example.com"}

Paths == {"/users/1", "users/1"}

ParamPairs == { << <<"k">>, <<"v">> >>, << <<"a", " ">>, <<"&", "=">> >> }

ParamLists ==
    { <<>>,
      << << <<"k">>, <<"+">> >> >>,
      << << <<"k">>, <<"v">> >>, << <<"k">>, <<"+">> >> >> }

SetupOf(baseUri) ==
    [method |-> "GET", headers |-> Obj(JsonContentType), baseUri |-> baseUri,
     timeout |-> TickMs, handler |-> Undefined]

InitURI ==
    /\ cbuilder = NewClientBuilder
    /\ client = NoClient
    /\ \E base \in {Undefined, Str("https://api.example.com")} :
          builders = <<NewRequestBuilder(SetupOf(base))>>
    /\ requests = <<>>
    /\ resolvers = <<>>
    /\ calls = <<>>

NextURI ==
    \/ \E b \in BuilderIds, base \in BaseURIs : RequestBuilder_baseURI(b, base)
    \/ \E b \in BuilderIds, path \in Paths : RequestBuilder_uri(b, path)
    \/ \E b \in BuilderIds, p \in ParamPairs :
          Len(builders[b]._params) < MaxParams /\ RequestBuilder_param(b, p[1], p[2])
    \/ \E b \in BuilderIds, ps \in ParamLists : RequestBuilder_params(b, ps)
    \/ \E b \in BuilderIds : Len(requests) < MaxRequests /\ RequestBuilder_retrieve(b)

SpecURI == InitURI /\ [][NextURI]_vars

\* The transport call that a step has just issued, and the builder it was
\* issued from (retrieve() leaves the builder as it is).
Dispatched == Len(requests') > Len(requests)

NewRequest == requests'[Len(requests')]

DispatchedBuilder == builders[NewRequest.builder]

\* C10: when a request with a path is dispatched, its URI is the base URI
\* (nothing when there is none), then the path as it is, then "?" and the
\* serialised parameters exactly when there are parameters.
C10_URIAssembly ==
    [][(Dispatched /\ DispatchedBuilder._uri # Undefined) =>
          LET bd == DispatchedBuilder
              query == IF bd._params = <<>> THEN ""
                       ELSE "?" \o ParamsToString(bd._params)
          IN  NewRequest.uri = Str(bd._baseUri \o bd._uri.s \o query)]_vars

\* A request has been dispatched without a base URI and with two parameters:
\* its URI is the path and the query.
C10_Witness ==
    \E r \in RequestIds :
       /\ builders[requests[r].builder]._baseUri = ""
       /\ requests[r].uri = Str("users/1?k=v&a+=%26%3D")

(***************************************************************************)
(* SpecParams: the parameters of a builder.  A builder with a base URI is  *)
(* given a path, parameters one by one and as a whole, and is dispatched.  *)
(***************************************************************************)
InitParams ==
    /\ cbuilder = NewClientBuilder
    /\ client = NoClient
    /\ builders = <<NewRequestBuilder(SetupOf(Str("https://api.example.com")))>>
    /\ requests = <<>>
    /\ resolvers = <<>>
    /\ calls = <<>>

NextParams ==
    \/ \E b \in BuilderIds : RequestBuilder_uri(b, "/users/1")
    \/ \E b \in BuilderIds, p \in ParamPairs :
          Len(builders[b]._params) < MaxParams /\ RequestBuilder_param(b, p[1], p[2])
    \/ \E b \in BuilderIds, ps \in ParamLists : RequestBuilder_params(b, ps)
    \/ \E b \in BuilderIds : Len(requests) < MaxRequests /\ RequestBuilder_retrieve(b)

SpecParams == InitParams /\ [][NextParams]_vars

\* The text of one pair of a query string, and the query string of pairs.
PairText(p) == Join(UrlEncode(p[1])) \o "=" \o Join(UrlEncode(p[2]))

QueryText(ps) ==
    IF ps = <<>> THEN ""
    ELSE LET upto[i \in 1..Len(ps)] ==
                 IF i = 1 THEN PairText(ps[1]) ELSE upto[i - 1] \o "&" \o PairText(ps[i])
         IN  upto[Len(ps)]

\* C11: param(key, value) adds the pair after the pairs that are there and
\* changes none of them, whether or not the name is there already; the query
\* string of a dispatched URI is the text of each pair, in that order.
C11_ParamAppends ==
    [][/\ \A b \in BuilderIds : \A p \in ParamPairs :
             RequestBuilder_param(b, p[1], p[2]) =>
                /\ Len(builders'[b]._params) = Len(builders[b]._params) + 1
                /\ SubSeq(builders'[b]._params, 1, Len(builders[b]._params))
                      = builders[b]._params
                /\ builders'[b]._params[Len(builders'[b]._params)] = p
       /\ (Dispatched /\ DispatchedBuilder._uri # Undefined
              /\ DispatchedBuilder._params # <<>>) =>
             NewRequest.uri = Str(DispatchedBuilder._baseUri \o DispatchedBuilder._uri.s
                                     \o "?" \o QueryText(DispatchedBuilder._params))]_vars

\* A request has been dispatched after two param() calls of the same name
\* and value: the query string has the pair twice.
C11_Witness ==
    \E r \in RequestIds :
       /\ requests[r].uri = Str("https://api.example.com/users/1?k=v&k=v")
       /\ builders[requests[r].builder]._params
             = << << <<"k">>, <<"v">> >>, << <<"k">>, <<"v">> >> >>

\* C12: params(allParams) makes the parameters of the builder exactly the
\* pairs of allParams, in their order: no earlier pair is kept.
C12_ParamsReplaces ==
    [][\A b \in BuilderIds : \A ps \in ParamLists :
          RequestBuilder_params(b, ps) => builders'[b]._params = ps]_vars

\* A request was dispatched with a pair added by param(); the builder has
\* since been given params() and holds the pairs of that call only.
C12_Witness ==
    \E r \in RequestIds :
       /\ requests[r].uri = Str("https://api.example.com/users/1?a+=%26%3D")
       /\ builders[requests[r].builder]._params
             = << << <<"k">>, <<"v">> >>, << <<"k">>, <<"+">> >> >>

(***************************************************************************)
(* SpecClient: a client is configured and built, and its verb methods make *)
(* builders.                                                               *)
(***************************************************************************)
ClientHeaders ==
    { [k \in {"Authorization"} |-> "Bearer token"],
      [k \in {"Content-type"} |-> "text/plain"],
      [k \in {"Authorization", "Content-type"} |->
          IF k = "Authorization" THEN "Bearer token" ELSE "text/plain"] }

RequestHeaders ==
    { <<"Authorization", "Bearer other">>, <<"Content-type", "application/xml">> }

RequestHeaderMaps ==
    { [k \in {"Authorization", "Accept"} |->
          IF k = "Authorization" THEN "Bearer bulk" ELSE "text/html"] }

InitClient ==
    /\ cbuilder = NewClientBuilder
    /\ client = NoClient
    /\ builders = <<>>
    /\ requests = <<>>
    /\ resolvers = <<>>
    /\ calls = <<>>

\* The client is configured before it is built.
Configure ==
    /\ client = NoClient
    /\ \/ ClientBuilder_baseUrl("https://api.example.com")
       \/ \E h \in ClientHeaders : ClientBuilder_defaultHeaders(h)
       \/ ClientBuilder_timeout(TickMs)
       \/ ClientBuilder_handler(Fn("rejectNot200"))
       \/ ClientBuilder_build

Verbs ==
    /\ Len(builders) < MaxBuilders
    /\ \/ RestClient_post
       \/ RestClient_get
       \/ RestClient_patch
       \/ RestClient_put
       \/ RestClient_delete

NextClient ==
    \/ Configure
    \/ Verbs

SpecClient == InitClient /\ [][NextClient]_vars

(***************************************************************************)
(* SpecHeaders: a client has been built with or without default headers;   *)
(* its verb methods make builders, the builders are given headers and      *)
(* dispatched.                                                             *)
(***************************************************************************)
InitHeaders ==
    /\ \E h \in {Undefined} \cup {Obj(m) : m \in ClientHeaders} :
          cbuilder = [NewClientBuilder EXCEPT !._headers = h]
    /\ client = RestClientOf(cbuilder)
    /\ builders = <<>>
    /\ requests = <<>>
    /\ resolvers = <<>>
    /\ calls = <<>>

NextHeaders ==
    \/ Verbs
    \/ \E b \in BuilderIds, h \in RequestHeaders : RequestBuilder_header(b, h[1], h[2])
    \/ \E b \in BuilderIds, h \in RequestHeaderMaps : RequestBuilder_headers(b, h)
    \/ \E b \in BuilderIds : Len(requests) < MaxRequests /\ RequestBuilder_retrieve(b)

SpecHeaders == InitHeaders /\ [][NextHeaders]_vars

\* C7: the headers sent with a request are the builder's default headers
\* overlaid by its per-request headers: the keys of both, and the
\* per-request value for a key of both.
C7_HeaderMerge ==
    [][Dispatched =>
          LET bd == DispatchedBuilder
              sent == NewRequest.headers.m
          IN  /\ DOMAIN sent = (DOMAIN bd._defaultHeaders) \cup (DOMAIN bd._headers)
              /\ \A k \in DOMAIN bd._headers : sent[k] = bd._headers[k]
              /\ \A k \in (DOMAIN bd._defaultHeaders) \ (DOMAIN bd._headers) :
                    sent[k] = bd._defaultHeaders[k]]_vars

\* A request has been sent with the per-request Authorization although the
\* builder's default headers carry another, and with the default
\* Content-type that no per-request header names.
C7_Witness ==
    \E r \in RequestIds :
       LET bd == builders[requests[r].builder]
       IN  /\ "Authorization" \in DOMAIN bd._defaultHeaders
           /\ bd._defaultHeaders["Authorization"] = "Bearer token"
           /\ "Content-type" \in DOMAIN bd._defaultHeaders
           /\ requests[r].headers.m["Authorization"] = "Bearer other"
           /\ requests[r].headers.m["Content-type"] = bd._defaultHeaders["Content-type"]

\* C8 as stated: a POST, PUT or PATCH request is sent with the JSON content
\* type unless a per-request header of that key was set.
C8_JsonUnlessRequestHeader ==
    [][(Dispatched /\ NewRequest.method \in {"POST", "PUT", "PATCH"}
          /\ "Content-type" \notin DOMAIN DispatchedBuilder._headers) =>
          /\ "Content-type" \in DOMAIN NewRequest.headers.m
          /\ NewRequest.headers.m["Content-type"] = "application/json"]_vars

\* C8 (amended): a POST, PUT or PATCH request is always sent with a
\* Content-type header; its value is the per-request header of that key if
\* one was set, else the client's default header of that key if it has one,
\* else application/json.
C8_JsonUnlessOverridden ==
    [][(Dispatched /\ NewRequest.method \in {"POST", "PUT", "PATCH"}) =>
          LET per == DispatchedBuilder._headers
              def == Spread(client.config.headers)
              sent == NewRequest.headers.m
          IN  /\ "Content-type" \in DOMAIN sent
              /\ sent["Content-type"] =
                    IF "Content-type" \in DOMAIN per THEN per["Content-type"]
                    ELSE IF "Content-type" \in DOMAIN def THEN def["Content-type"]
                    ELSE "application/json"]_vars

\* A POST request has been sent with the JSON content type by a client that
\* has default headers, none of them a Content-type.
C8_Witness ==
    \E r \in RequestIds :
       /\ requests[r].method = "POST"
       /\ client.config.headers = Obj([k \in {"Authorization"} |-> "Bearer token"])
       /\ requests[r].headers.m["Content-type"] = "application/json"

\* C9: a verb method appends a new builder with that verb, the client's base
\* URL, timeout and handler, and nothing set on it; the default headers of a
\* GET or DELETE builder are exactly the client's default headers.
C9_VerbSeeds ==
    [][Len(builders') > Len(builders) =>
          LET bd == builders'[Len(builders')]
              config == client.config
          IN  /\ Len(builders') = Len(builders) + 1
              /\ RestClient_post => bd.method = "POST"
              /\ RestClient_get => bd.method = "GET"
              /\ RestClient_patch => bd.method = "PATCH"
              /\ RestClient_put => bd.method = "PUT"
              /\ RestClient_delete => bd.method = "DELETE"
              /\ bd._baseUri = config.baseUrl
              /\ bd._timeout = config.timout
              /\ bd._handler = config.handler
              /\ bd._uri = Undefined /\ bd._body = Undefined
              /\ bd._headers = <<>> /\ bd._params = <<>>
              /\ bd.method \in {"GET", "DELETE"} =>
                    bd._defaultHeaders = Spread(config.headers)
              /\ \A b \in BuilderIds : builders'[b] = builders[b]]_vars

\* delete() has made a builder for a client configured with a base URL, a
\* timeout, a handler and default headers: it carries all four and no
\* Content-type.
C9_Witness ==
    \E b \in BuilderIds :
       /\ builders[b].method = "DELETE"
       /\ builders[b]._baseUri = "https://api.example.com"
       /\ builders[b]._timeout = TickMs
       /\ builders[b]._handler = Fn("rejectNot200")
       /\ builders[b]._defaultHeaders = [k \in {"Authorization"} |-> "Bearer token"]

\* The header map `after` is the map `before` with the entries of `set` laid
\* over it: the keys of `set` hold its values, every other key of `before` is
\* kept with its value, and there is no other key.
Overlaid(before, set, after) ==
    /\ DOMAIN after = (DOMAIN before) \cup (DOMAIN set)
    /\ \A k \in DOMAIN set : after[k] = set[k]
    /\ \A k \in (DOMAIN before) \ (DOMAIN set) : after[k] = before[k]

\* C14: header(key, value) and headers(map) set the keys they name in the
\* per-request headers of the builder and keep every other key with its
\* value.
C14_HeadersMerge ==
    [][\A b \in BuilderIds :
          /\ \A h \in RequestHeaders :
                RequestBuilder_header(b, h[1], h[2]) =>
                   Overlaid(builders[b]._headers, [k \in {h[1]} |-> h[2]],
                            builders'[b]._headers)
          /\ \A h \in RequestHeaderMaps :
                RequestBuilder_headers(b, h) =>
                   Overlaid(builders[b]._headers, h, builders'[b]._headers)]_vars

\* A builder was given Authorization and Content-type with header() and then
\* a map with Authorization and Accept with headers(): Authorization has the
\* value of the map, Content-type is kept.
C14_Witness ==
    \E b \in BuilderIds :
       /\ DOMAIN builders[b]._headers = {"Authorization", "Content-type", "Accept"}
       /\ builders[b]._headers["Authorization"] = "Bearer bulk"
       /\ builders[b]._headers["Content-type"] = "application/xml"
       /\ builders[b]._headers["Accept"] = "text/html"

(***************************************************************************)
(* SpecBody: the body of a dispatched request.  post() has returned a      *)
(* builder; it is given bodies and dispatched.                             *)
(***************************************************************************)
Bodies ==
    { Undefined, Null, Bool(FALSE), Bool(TRUE), Num(0), Num(1), Str(""), Str("text"),
      ObjectLiteral(<<>>), ObjectLiteral(<< <<"k", 1>> >>), Fn("callback") }

InitBody ==
    /\ cbuilder = NewClientBuilder
    /\ client = RestClientOf(cbuilder)
    /\ builders = <<NewRequestBuilder(RequestSetupOf("POST", client.config))>>
    /\ requests = <<>>
    /\ resolvers = <<>>
    /\ calls = <<>>

NextBody ==
    \/ \E b \in BuilderIds, item \in Bodies : RequestBuilder_body(b, item)
    \/ \E b \in BuilderIds, path \in Paths : RequestBuilder_uri(b, path)
    \/ \E b \in BuilderIds : Len(requests) < MaxDispatches /\ RequestBuilder_retrieve(b)

SpecBody == InitBody /\ [][NextBody]_vars

\* if (x) is false for x
Falsy(x) == x \in {Undefined, Null, Bool(FALSE), Num(0), Str("")}

\* C13 as stated: a body is attached to the transport call exactly when the
\* value last passed to body() is neither absent nor falsy.
C13_BodyIffPresent ==
    [][Dispatched =>
          (NewRequest.body # Undefined <=> ~Falsy(DispatchedBuilder._body))]_vars

\* C13 (amended): a body is attached exactly when the value last passed to
\* body() is neither absent nor falsy and has a JSON text, and the body is
\* then that text; a function has none and attaches no body.
C13_BodyIffSerialisable ==
    [][Dispatched =>
          LET item == DispatchedBuilder._body
              attached == NewRequest.body # Undefined
          IN  /\ attached <=> (~Falsy(item) /\ item.t # "function")
              /\ attached => NewRequest.body = JSONStringify(item)
              /\ item = ObjectLiteral(<< <<"k", 1>> >>) =>
                    NewRequest.body = Str("{\"k\":1}")
              /\ item = Bool(TRUE) => NewRequest.body = Str("true")
              /\ item = Str("text") => NewRequest.body = Str("\"text\"")]_vars

\* One builder has been dispatched with the body {k: 1} and, after
\* body(null), again: the first call has the JSON text and the second has
\* no body.
C13_Witness ==
    \E r1, r2 \in RequestIds :
       /\ r1 < r2
       /\ requests[r1].builder = requests[r2].builder
       /\ requests[r1].body = Str("{\"k\":1}")
       /\ requests[r2].body = Undefined
       /\ builders[requests[r2].builder]._body = Null

(***************************************************************************)
(* SpecResolver: the terminal methods of one resolver.  get() has returned *)
(* a builder and retrieve() has dispatched it; the resolver is given a     *)
(* converter and a handler, the transport settles the call, and the        *)
(* terminal methods project the outcome.                                   *)
(***************************************************************************)
InvalidJsonText == "{\"key\":"

ResolverResponses ==
    { Response(200, Str("application/json"), JsonText),
      Response(200, Str("application/json; charset=utf-8"), InvalidJsonText),
      Response(404, Str("text/plain"), PlainText),
      Response(500, Null, JsonText),
      NullBodyResponse(200, Null),
      NullBodyResponse(204, Str("application/json")) }

ResolverHandlers == {Fn("noop"), Fn("rejectNot200")}

Converters == {Fn("toUser")}

InitResolver ==
    /\ cbuilder = NewClientBuilder
    /\ client = RestClientOf(cbuilder)
    /\ builders = <<NewRequestBuilder(RequestSetupOf("GET", client.config))>>
    /\ requests = <<performFetch(RequestBody(builders[1]), 1)>>
    /\ resolvers = <<NewResolver(1, builders[1]._handler)>>
    /\ calls = <<>>

NextResolver ==
    \/ \E res \in ResolverIds, converter \in Converters : Resolver_converter(res, converter)
    \/ \E res \in ResolverIds, handler \in ResolverHandlers : Resolver_handler(res, handler)
    \/ \E r \in RequestIds, response \in ResolverResponses : Fetch_fulfil(r, response)
    \/ \E r \in RequestIds : Fetch_reject(r)
    \/ Terminal

SpecResolver == InitResolver /\ [][NextResolver]_vars

\* The terminal call c ends in this step, its response body read.
BodyDelivered(c) == calls[c].pc \in {"json", "text"} /\ calls'[c].pc = "done"

JsonContentTypes == {Str("application/json"), Str("application/json; charset=utf-8")}

\* C15: toEntity() that resolves has decoded the body by the Content-Type of
\* the response: of a JSON content type, data is the parsed body, with the
\* converter applied when the resolver has one; of any other or no content
\* type, data is the text of the body, with no converter applied.
C15_DecodesByContentType ==
    [][\A c \in CallIds :
          (BodyDelivered(c) /\ calls'[c].outcome = "resolved") =>
             LET response == calls[c].response
                 converter == resolvers[calls[c].resolver]._converter
                 data == calls'[c].value.data
             IN  /\ calls[c].method = "toEntity"
                 /\ calls'[c].value.status = response.status
                 /\ IF response.contentType \in JsonContentTypes
                    THEN /\ response.text = JsonText
                         /\ data = IF converter = Undefined
                                   THEN [t |-> "parsed", of |-> response.text]
                                   ELSE [t |-> "converted", by |-> converter.name,
                                         of |-> [t |-> "parsed", of |-> response.text]]
                    ELSE data = Str(response.text)]_vars

\* toEntity() has resolved with the JSON body of a response, parsed and
\* converted by the converter of the resolver.
C15_Witness ==
    \E c \in CallIds :
       /\ calls[c].method = "toEntity"
       /\ calls[c].outcome = "resolved"
       /\ calls[c].value.t = "ResponseEntity"
       /\ calls[c].value.data = [t |-> "converted", by |-> "toUser",
                                 of |-> [t |-> "parsed", of |-> JsonText]]

\* A rejection that the terminal method raises for the body of the response:
\* the body was read before, or it does not parse.
BodyErrors == {Error("TypeError: body used"), Error("SyntaxError")}

\* C16: there is no status validation.  A terminal method that has received
\* a response of any status ends rejected by the handler only when the
\* handler ran and throws for that status; otherwise toVoid() and
\* toResponse() resolve and report the status, and toEntity() resolves and
\* reports the status unless it cannot read or parse the body.
C16_StatusPassthrough ==
    \A c \in CallIds :
       (calls[c].pc = "done" /\ calls[c].response # NoResult) =>
          LET call == calls[c]
              status == call.response.status
          IN  IF call.value = Error("HandlerError")
              THEN /\ call.outcome = "rejected"
                   /\ call.inspected = 1
                   /\ status # 200
              ELSE /\ call.outcome = "rejected" =>
                         (call.method = "toEntity" /\ call.value \in BodyErrors)
                   /\ call.outcome = "resolved" =>
                         /\ call.value.status = status
                         /\ call.method = "toResponse" => call.value = call.response
                         /\ call.method = "toVoid" => call.value.t = "ResponseVoid"
                         /\ call.method = "toEntity" => call.value.t = "ResponseEntity"

\* toEntity(), toVoid() and toResponse() have resolved with a status that is
\* not 200, toEntity() after a handler that does not throw has run.
C16_Witness ==
    /\ \E c \in CallIds :
          /\ calls[c].method = "toEntity"
          /\ calls[c].outcome = "resolved"
          /\ calls[c].inspected = 1
          /\ calls[c].value.status = 404
    /\ \E c \in CallIds :
          /\ calls[c].method \in {"toVoid", "toResponse"}
          /\ calls[c].outcome = "resolved"
          /\ calls[c].value.status = 404

\* The terminal call c passes `await this._response` in this step.
PassesAwait(c) == calls[c].pc = "await" /\ calls'[c].pc # "await"

\* C17: when the handler throws for the response, the terminal method that
\* called it ends rejected with the exception of the handler, returns no
\* value, and the body of the response is not read.
C17_HandlerThrowAborts ==
    [][\A c \in CallIds :
          LET rs == resolvers[calls[c].resolver]
              rq == requests[rs._response]
          IN  (PassesAwait(c) /\ rq.state = "fulfilled"
                 /\ rs._handler = Fn("rejectNot200") /\ rq.result.status # 200) =>
                 /\ calls'[c].pc = "done"
                 /\ calls'[c].outcome = "rejected"
                 /\ calls'[c].value = Error("HandlerError")
                 /\ calls'[c].inspected = 1
                 /\ requests' = requests]_vars

\* toEntity() has been rejected with the exception of the handler, and the
\* body of the response has not been read.
C17_Witness ==
    \E c \in CallIds :
       /\ calls[c].method = "toEntity"
       /\ calls[c].outcome = "rejected"
       /\ calls[c].value = Error("HandlerError")
       /\ ~CallRequest(c).bodyUsed

\* The errors with which the pending response rejects.
TransportErrors == {Error("TypeError: fetch failed")}

\* C18: when the pending response has rejected, every terminal method that
\* has passed its await on it has ended rejected with the error of the
\* pending response itself.
C18_RejectionVerbatim ==
    \A c \in CallIds :
       (calls[c].pc # "await" /\ CallRequest(c).state = "rejected") =>
          /\ calls[c].pc = "done"
          /\ calls[c].outcome = "rejected"
          /\ calls[c].value = CallRequest(c).result
          /\ calls[c].value \in TransportErrors
          /\ calls[c].response = NoResult

\* Two different terminal methods of one resolver have ended rejected with
\* the error of its failed transport call.
C18_Witness ==
    \E c1, c2 \in CallIds :
       /\ calls[c1].resolver = calls[c2].resolver
       /\ calls[c1].method = "toEntity"
       /\ calls[c2].method \in {"toVoid", "toResponse"}
       /\ calls[c1].outcome = "rejected"
       /\ calls[c1].value = Error("TypeError: fetch failed")
       /\ calls[c2].outcome = "rejected"
       /\ calls[c2].value = Error("TypeError: fetch failed")
       /\ CallRequest(c1).result = Error("TypeError: fetch failed")

\* C19: toEntity() on a response of a JSON content type whose body is not
\* valid JSON, once it has read the body, has ended rejected with the parse
\* error; it has no entity and the text of the body is not its data.
C19_InvalidJsonRejects ==
    \A c \in CallIds :
       LET call == calls[c]
       IN  (call.method = "toEntity" /\ call.pc = "done" /\ call.response # NoResult
              /\ call.response.contentType \in JsonContentTypes
              /\ call.response.text # JsonText
              /\ call.value \notin {Error("HandlerError"), Error("TypeError: body used")}) =>
              /\ call.outcome = "rejected"
              /\ call.value = Error("SyntaxError")

\* toEntity() has been rejected with the parse error of a body that was
\* announced as JSON.
C19_Witness ==
    \E c \in CallIds :
       /\ calls[c].method = "toEntity"
       /\ calls[c].outcome = "rejected"
       /\ calls[c].value = Error("SyntaxError")
       /\ calls[c].response.contentType = Str("application/json; charset=utf-8")
       /\ calls[c].response.text = InvalidJsonText

\* C20: the body of a response is read by toEntity() only: a body that has
\* been read has a toEntity() call past its await, and toVoid() and
\* toResponse(), whatever the body is, resolve unless the handler throws.
C20_BodyUntouched ==
    /\ \A r \in RequestIds :
          requests[r].bodyUsed =>
             \E c \in CallIds :
                /\ resolvers[calls[c].resolver]._response = r
                /\ calls[c].method = "toEntity"
                /\ calls[c].pc # "await"
    /\ \A c \in CallIds :
          (calls[c].method \in {"toVoid", "toResponse"} /\ calls[c].pc # "await"
             /\ calls[c].response # NoResult
             /\ calls[c].value # Error("HandlerError")) =>
             /\ calls[c].outcome = "resolved"
             /\ calls[c].value.status = calls[c].response.status

\* toVoid() and toResponse() have both resolved on a response whose body is
\* not valid JSON, and the body has not been read.
C20_Witness ==
    \E c1, c2 \in CallIds :
       /\ calls[c1].method = "toVoid" /\ calls[c1].outcome = "resolved"
       /\ calls[c2].method = "toResponse" /\ calls[c2].outcome = "resolved"
       /\ calls[c2].value.text = InvalidJsonText
       /\ ~CallRequest(c1).bodyUsed
       /\ ~CallRequest(c2).bodyUsed

\* C26: when a terminal call passes its await on a fulfilled response and
\* the resolver has a handler, the handler has run once in that step, on the
\* response as the transport delivered it, and the call had neither read the
\* body nor a value before; a throwing handler leaves the body unread; and
\* no other step runs the handler of a call, so that every terminal call
\* that is past its await has run it exactly once.
C26_InspectorOncePerCall ==
    [][\A c \in CallIds :
          LET rs == resolvers[calls[c].resolver]
              rq == requests[rs._response]
          IN  /\ (PassesAwait(c) /\ rq.state = "fulfilled" /\ Truthy(rs._handler)) =>
                    /\ calls[c].inspected = 0
                    /\ calls[c].value = NoResult
                    /\ calls'[c].inspected = 1
                    /\ calls'[c].response = rq.result
                    /\ HandlerThrows(rs._handler, rq.result.status) => requests' = requests
              /\ ~PassesAwait(c) => calls'[c].inspected = calls[c].inspected]_vars

\* Two terminal calls on one resolver have ended, one of them toEntity(),
\* and the handler has run once for each.
C26_Witness ==
    \E c1, c2 \in CallIds :
       /\ c1 # c2
       /\ calls[c1].resolver = calls[c2].resolver
       /\ calls[c1].method = "toEntity" /\ calls[c1].outcome = "resolved"
       /\ calls[c2].pc = "done"
       /\ calls[c1].inspected = 1 /\ calls[c2].inspected = 1

\* The toEntity() calls on a resolver that are reading the body or have
\* resolved with it, after the step.
Decoding(res) ==
    {c \in 1..Len(calls') :
        /\ calls'[c].resolver = res
        /\ calls'[c].method = "toEntity"
        /\ \/ calls'[c].pc \in {"json", "text"} /\ calls'[c].read = NoResult
           \/ calls'[c].outcome = "resolved"}

\* The toEntity() call c has called response.json() / response.text() and
\* the call read: it is waiting for what was read or has ended with it.
HasRead(c) ==
    /\ calls[c].method = "toEntity"
    /\ calls[c].pc # "await"
    /\ calls[c].response # NoResult
    /\ calls[c].value # Error("HandlerError")
    /\ calls[c].read = NoResult

\* C28 as stated: of the terminal calls that pass their await on a fulfilled
\* response whose handler does not throw, toVoid() and toResponse() resolve
\* and leave the response as it is; toEntity() reads when no toEntity() call
\* on the resolver has read before, and after another toEntity() call has
\* read, its read fails at once and it ends rejected when the failed read is
\* delivered; and at most one toEntity() call per resolver decodes.
C28_BodyReadOnce ==
    [][/\ \A c \in CallIds :
             LET rs == resolvers[calls[c].resolver]
                 rq == requests[rs._response]
                 readBefore == \E d \in CallIds :
                                  d # c /\ calls[d].resolver = calls[c].resolver /\ HasRead(d)
             IN  /\ (PassesAwait(c) /\ rq.state = "fulfilled"
                       /\ ~HandlerThrows(rs._handler, rq.result.status)) =>
                       /\ calls[c].method \in {"toVoid", "toResponse"} =>
                             (calls'[c].outcome = "resolved" /\ requests' = requests)
                       /\ (calls[c].method = "toEntity" /\ readBefore) =>
                             /\ calls'[c].pc \in {"json", "text"}
                             /\ calls'[c].read = Error("TypeError: body used")
                       /\ (calls[c].method = "toEntity" /\ ~readBefore) =>
                             /\ calls'[c].pc \in {"json", "text"}
                             /\ calls'[c].read = NoResult
                 /\ BodyDelivered(c) =>
                       /\ requests' = requests
                       /\ calls[c].read # NoResult =>
                             /\ calls'[c].outcome = "rejected"
                             /\ calls'[c].value = Error("TypeError: body used")
       /\ \A res \in ResolverIds : Cardinality(Decoding(res)) <= 1]_vars

\* C28, amended: as stated for a response that has a body, which the first
\* toEntity() to read marks used; on a response without a body nothing is
\* marked, every toEntity() call reads again, and no read fails for an
\* earlier one.  toVoid() and toResponse() resolve and leave the response
\* as it is in both cases, and the delivery of a read reads nothing more.
C28_BodyReadOnceIfBody ==
    [][/\ \A c \in CallIds :
             LET rs == resolvers[calls[c].resolver]
                 rq == requests[rs._response]
                 readBefore == \E d \in CallIds :
                                  d # c /\ calls[d].resolver = calls[c].resolver /\ HasRead(d)
             IN  /\ (PassesAwait(c) /\ rq.state = "fulfilled"
                       /\ ~HandlerThrows(rs._handler, rq.result.status)) =>
                       /\ calls[c].method \in {"toVoid", "toResponse"} =>
                             (calls'[c].outcome = "resolved" /\ requests' = requests)
                       /\ (calls[c].method = "toEntity" /\ ~rq.result.nullBody) =>
                             /\ rq.bodyUsed <=> readBefore
                             /\ calls'[c].pc \in {"json", "text"}
                             /\ calls'[c].read = IF readBefore
                                                 THEN Error("TypeError: body used")
                                                 ELSE NoResult
                             /\ requests'[rs._response].bodyUsed
                       /\ (calls[c].method = "toEntity" /\ rq.result.nullBody) =>
                             /\ calls'[c].pc \in {"json", "text"}
                             /\ calls'[c].read = NoResult
                             /\ requests' = requests
                             /\ ~rq.bodyUsed
                 /\ BodyDelivered(c) =>
                       /\ requests' = requests
                       /\ calls[c].read # NoResult =>
                             /\ calls'[c].outcome = "rejected"
                             /\ calls'[c].value = Error("TypeError: body used")
       /\ \A res \in ResolverIds :
             (RequestOf(res).state = "fulfilled" /\ ~RequestOf(res).result.nullBody) =>
                Cardinality(Decoding(res)) <= 1]_vars

\* toEntity() has resolved with the body, and a second toEntity() on the
\* same resolver has rejected because the body was read.
C28_Witness ==
    \E c1, c2 \in CallIds :
       /\ calls[c1].resolver = calls[c2].resolver
       /\ calls[c1].method = "toEntity" /\ calls[c1].outcome = "resolved"
       /\ calls[c2].method = "toEntity" /\ calls[c2].outcome = "rejected"
       /\ calls[c2].value = Error("TypeError: body used")

(***************************************************************************)
(* SpecTimely: the terminal methods of one resolver while time passes.  As *)
(* SpecResolver, with the clock: the transport settles the call before or  *)
(* after its timeout has elapsed, the handler of the resolver is replaced  *)
(* at any time, and the terminal methods are invoked at any time.          *)
(***************************************************************************)
NextTimely ==
    \/ NextResolver
    \/ Tick

SpecTimely == InitResolver /\ [][NextTimely]_vars

\* The transport call r has settled with a response before its timeout had
\* elapsed.  The clock of a request stops when its call settles.
Timely(r) == requests[r].state = "fulfilled" /\ requests[r].remaining > 0

\* C3 as stated: when the transport call has settled with a response before
\* its timeout had elapsed, every terminal method that has ended on the
\* resolver has resolved, and the abort has not fired.
C3_ResolvesNormally ==
    \A c \in CallIds :
       (calls[c].pc = "done" /\ Timely(resolvers[calls[c].resolver]._response)) =>
          /\ calls[c].outcome = "resolved"
          /\ CallRequest(c).signal # "aborted"

\* C3 (amended): when the transport call has settled with a response before
\* its timeout had elapsed, no later step changes the outcome of the call
\* (no abort fires: the call stays fulfilled with that response, its signal
\* and timer as they were), and a terminal method that passes its await,
\* whenever it was invoked, receives that response: it is rejected there
\* only by the handler that the resolver holds at that moment throwing for
\* the response, otherwise toResponse() and toVoid() resolve with the
\* response and its projection and toEntity() goes on to read the body; and
\* toEntity() to which the read is delivered resolves with the entity of
\* that response unless the body could not be read or parsed.
C3_NotRejectedByTimeout ==
    [][\A r \in RequestIds :
          Timely(r) =>
             /\ requests'[r].state = "fulfilled"
             /\ requests'[r].result = requests[r].result
             /\ requests'[r].signal = requests[r].signal
             /\ requests'[r].timer = requests[r].timer
             /\ requests'[r].remaining = requests[r].remaining
             /\ \A c \in CallIds :
                   resolvers[calls[c].resolver]._response = r =>
                      LET rs == resolvers[calls[c].resolver]
                          response == requests[r].result
                      IN  /\ PassesAwait(c) =>
                                /\ calls'[c].response = response
                                /\ IF HandlerThrows(rs._handler, response.status)
                                   THEN /\ calls'[c].outcome = "rejected"
                                        /\ calls'[c].value = Error("HandlerError")
                                   ELSE /\ calls[c].method = "toResponse" =>
                                             /\ calls'[c].outcome = "resolved"
                                             /\ calls'[c].value = response
                                        /\ calls[c].method = "toVoid" =>
                                             /\ calls'[c].outcome = "resolved"
                                             /\ calls'[c].value = ResponseVoid_create(response)
                                        /\ calls[c].method = "toEntity" =>
                                             /\ calls'[c].pc \in {"json", "text"}
                                             /\ calls'[c].outcome = "pending"
                          /\ BodyDelivered(c) =>
                                \/ /\ calls'[c].outcome = "resolved"
                                   /\ calls'[c].value.t = "ResponseEntity"
                                   /\ calls'[c].value.status = response.status
                                \/ /\ calls'[c].outcome = "rejected"
                                   /\ calls'[c].value \in BodyErrors]_vars

\* A terminal method has resolved on a request that fulfilled with time left
\* of its timeout, after time had passed while the call was pending.
C3_Witness ==
    \E c \in CallIds :
       /\ calls[c].outcome = "resolved"
       /\ Timely(resolvers[calls[c].resolver]._response)
       /\ CallRequest(c).remaining < CallRequest(c).timeout

(***************************************************************************)
(* SpecOverride: the handler of a resolver.  A client has been built with  *)
(* a handler and get() has returned a builder; the builder is dispatched,  *)
(* resolvers are given a handler of their own, the transport answers and   *)
(* toVoid() projects the answers.                                          *)
(***************************************************************************)
InitOverride ==
    /\ cbuilder = [NewClientBuilder EXCEPT !._handler = Fn("rejectNot200")]
    /\ client = RestClientOf(cbuilder)
    /\ builders = <<NewRequestBuilder(RequestSetupOf("GET", client.config))>>
    /\ requests = <<>>
    /\ resolvers = <<>>
    /\ calls = <<>>

NextOverride ==
    \/ \E b \in BuilderIds : Len(requests) < MaxDispatches /\ RequestBuilder_retrieve(b)
    \/ \E res \in ResolverIds : Resolver_handler(res, Fn("noop"))
    \/ \E r \in RequestIds, response \in Responses : Fetch_fulfil(r, response)
    \/ \E res \in ResolverIds : Len(calls) < MaxCalls /\ Resolver_toVoid(res)
    \/ \E c \in CallIds : Resume(c)

SpecOverride == InitOverride /\ [][NextOverride]_vars

\* C21: handler(fn) on a resolver sets the handler of that resolver and of no
\* other; a resolver is made with the handler of the client; and a terminal
\* call that receives a response runs the handler its own resolver has at
\* that time, so it ends rejected by the handler exactly when that handler
\* throws for the response.
C21_HandlerPerResolver ==
    [][/\ \A res \in ResolverIds :
             Resolver_handler(res, Fn("noop")) =>
                /\ resolvers'[res]._handler = Fn("noop")
                /\ \A other \in ResolverIds \ {res} : resolvers'[other] = resolvers[other]
       /\ Len(resolvers') > Len(resolvers) =>
             resolvers'[Len(resolvers')]._handler = client.config.handler
       /\ \A c \in CallIds :
             (PassesAwait(c) /\ CallRequest(c).state = "fulfilled") =>
                LET h == resolvers[calls[c].resolver]._handler
                    status == CallRequest(c).result.status
                IN  /\ calls'[c].inspected = 1
                    /\ calls'[c].value = Error("HandlerError")
                          <=> (h = Fn("rejectNot200") /\ status # 200)]_vars

\* Two requests of one client have been answered with status 404.  The
\* resolver of the first was given a handler that does not throw and its
\* toVoid() has resolved; the resolver of the second has the handler of the
\* client and its toVoid() has been rejected by it.
C21_Witness ==
    \E c1, c2 \in CallIds :
       /\ calls[c1].resolver = 1 /\ calls[c2].resolver = 2
       /\ resolvers[1]._handler = Fn("noop")
       /\ resolvers[2]._handler = client.config.handler
       /\ client.config.handler = Fn("rejectNot200")
       /\ calls[c1].outcome = "resolved" /\ calls[c1].value.status = 404
       /\ calls[c1].inspected = 1
       /\ calls[c2].outcome = "rejected" /\ calls[c2].value = Error("HandlerError")

(***************************************************************************)
(* SpecConfig: the configuration of a client.  The client builder is       *)
(* configured and builds a client, and is configured further afterwards;   *)
(* the verb methods of the client make builders, which are given a timeout *)
(* and dispatched, and the resolvers are given a handler.                  *)
(***************************************************************************)
LongTimeout == 3 * TickMs

NextConfig ==
    \/ ClientBuilder_baseUrl("https://api.example.com")
    \/ ClientBuilder_defaultHeaders([k \in {"Authorization"} |-> "Bearer token"])
    \/ ClientBuilder_timeout(TickMs)
    \/ ClientBuilder_handler(Fn("rejectNot200"))
    \/ ClientBuilder_build
    \/ Verbs
    \/ \E b \in BuilderIds : RequestBuilder_timeout(b, LongTimeout)
    \/ \E b \in BuilderIds : Len(requests) < MaxRequests /\ RequestBuilder_retrieve(b)
    \/ \E res \in ResolverIds : Resolver_handler(res, Fn("noop"))

SpecConfig == InitClient /\ [][NextConfig]_vars

\* The step makes a builder.
BuilderMade == Len(builders') > Len(builders)

NewBuilder == builders'[Len(builders')]

\* C22: once built, the client is changed by no step, whether on the client
\* builder, a verb method, a builder or a resolver; build() takes the
\* configuration from the client builder as it is then, and every verb
\* method seeds the builder it makes from the configuration of the client.
C22_ConfigImmutable ==
    [][/\ client # NoClient => client' = client
       /\ (client = NoClient /\ client' # NoClient) =>
             client'.config = [baseUrl |-> cbuilder._baseurl, headers |-> cbuilder._headers,
                               timout |-> cbuilder._timout, handler |-> cbuilder._handler]
       /\ BuilderMade =>
             /\ NewBuilder._baseUri = client.config.baseUrl
             /\ NewBuilder._timeout = client.config.timout
             /\ NewBuilder._handler = client.config.handler
             /\ \A k \in DOMAIN Spread(client.config.headers) :
                   /\ k \in DOMAIN NewBuilder._defaultHeaders
                   /\ NewBuilder._defaultHeaders[k] = client.config.headers.m[k]]_vars

\* The client was built without configuration; the client builder has since
\* been given a base URL, default headers, a timeout and a handler, and a
\* builder made by the client carries none of them.
C22_Witness ==
    /\ client = RestClientOf(NewClientBuilder)
    /\ cbuilder._baseurl = "https://api.example.com"
    /\ cbuilder._headers # Undefined
    /\ cbuilder._timout = TickMs
    /\ cbuilder._handler = Fn("rejectNot200")
    /\ \E b \in BuilderIds :
          /\ builders[b]._baseUri = ""
          /\ builders[b]._timeout = 10000
          /\ builders[b]._handler = Undefined
          /\ "Authorization" \notin DOMAIN builders[b]._defaultHeaders

\* C24: the client builder starts with 10000 ms and holds the value of its
\* last timeout(ms); build() hands that to the client; a verb method seeds
\* the builder with the timeout of the client; only timeout(ms) on the
\* builder changes it; and retrieve() passes the timeout of its builder to
\* performFetch.
C24_TimeoutPrecedence ==
    /\ cbuilder._timout = 10000
    /\ [][/\ cbuilder'._timout # cbuilder._timout =>
                (cbuilder'._timout = TickMs /\ ClientBuilder_timeout(TickMs))
          /\ (client = NoClient /\ client' # NoClient) =>
                client'.config.timout = cbuilder._timout
          /\ BuilderMade => NewBuilder._timeout = client.config.timout
          /\ \A b \in BuilderIds :
                builders'[b]._timeout # builders[b]._timeout =>
                   (builders'[b]._timeout = LongTimeout
                      /\ RequestBuilder_timeout(b, LongTimeout))
          /\ Dispatched =>
                NewRequest.timeout = DispatchedBuilder._timeout]_vars

\* A request has been dispatched with the timeout of the client, which is
\* neither the default nor a timeout of its builder.
C24_Witness ==
    \E r \in RequestIds :
       /\ requests[r].timeout = TickMs
       /\ client.config.timout = TickMs
       /\ builders[requests[r].builder]._timeout = TickMs

(***************************************************************************)
(* SpecIsolation: two builders of one client.  get() has returned two      *)
(* builders and each was given the same path; each is given headers,       *)
(* parameters, a body and a timeout and dispatched once, in any interleaving *)
(* with the other; the transport fulfils or rejects each call, and         *)
(* toResponse() projects the outcomes.                                     *)
(***************************************************************************)
InitIsolation ==
    /\ cbuilder = NewClientBuilder
    /\ client = RestClientOf(cbuilder)
    /\ builders = [b \in 1..2 |->
                      [NewRequestBuilder(RequestSetupOf("GET", client.config))
                         EXCEPT !._uri = Str("/users/1")]]
    /\ requests = <<>>
    /\ resolvers = <<>>
    /\ calls = <<>>

\* retrieve() has not been called on the builder.
Undispatched(b) == \A r \in RequestIds : requests[r].builder # b

NextIsolation ==
    \/ \E b \in BuilderIds : Undispatched(b)
                               /\ RequestBuilder_header(b, "Authorization", "Bearer token")
    \/ \E b \in BuilderIds : Undispatched(b) /\ RequestBuilder_params(b, << << <<"k">>, <<"v">> >> >>)
    \/ \E b \in BuilderIds : Undispatched(b)
                               /\ RequestBuilder_body(b, ObjectLiteral(<< <<"k", 1>> >>))
    \/ \E b \in BuilderIds : Undispatched(b) /\ RequestBuilder_timeout(b, LongTimeout)
    \/ \E b \in BuilderIds : Undispatched(b) /\ RequestBuilder_retrieve(b)
    \/ \E r \in RequestIds, response \in Responses : Fetch_fulfil(r, response)
    \/ \E r \in RequestIds : Fetch_reject(r)
    \/ \E res \in ResolverIds : Len(calls) < MaxCalls /\ Resolver_toResponse(res)
    \/ \E c \in CallIds : Resume(c)

SpecIsolation == InitIsolation /\ [][NextIsolation]_vars

\* All that belongs to builder b in a state: the builder, its requests, the
\* resolvers of these and the terminal calls on them.
Footprint(b, bs, rqs, rss, cs) ==
    << bs[b],
       SelectSeq(rqs, LAMBDA rq : rq.builder = b),
       SelectSeq(rss, LAMBDA rs : rqs[rs._response].builder = b),
       SelectSeq(cs, LAMBDA c : rqs[rss[c.resolver]._response].builder = b) >>

Touched(b) ==
    Footprint(b, builders', requests', resolvers', calls')
       # Footprint(b, builders, requests, resolvers, calls)

\* C23: a step changes the builder, the request, the resolver and the
\* terminal calls of at most one builder; the request dispatched for a
\* builder carries the URI, headers, body and timeout of that builder; and a
\* terminal call resolves with the response of its own request, or rejects
\* with the error of its own request.
C23_Isolated ==
    [][/\ \A b1 \in BuilderIds, b2 \in BuilderIds :
             (b1 # b2 /\ Touched(b1)) => ~Touched(b2)
       /\ Dispatched =>
             /\ NewRequest.uri = createURI(DispatchedBuilder._baseUri,
                                           DispatchedBuilder._uri,
                                           DispatchedBuilder._params)
             /\ NewRequest.headers = RequestBody(DispatchedBuilder).headers
             /\ NewRequest.body = RequestBody(DispatchedBuilder).body
             /\ NewRequest.timeout = DispatchedBuilder._timeout
       /\ \A c \in CallIds :
             PassesAwait(c) =>
                /\ CallRequest(c).state = "fulfilled" =>
                      (calls'[c].outcome = "resolved" /\ calls'[c].value = CallRequest(c).result)
                /\ CallRequest(c).state = "rejected" =>
                      (calls'[c].outcome = "rejected" /\ calls'[c].value = CallRequest(c).result)
      ]_vars

\* The same request was issued by both builders, the two responses differ,
\* and a terminal call on each has resolved with its own response, while
\* one builder alone holds a header.
C23_Witness ==
    /\ Len(requests) = 2 /\ Len(calls) = 2
    /\ requests[1].builder # requests[2].builder
    /\ requests[1].uri = requests[2].uri
    /\ requests[1].headers # requests[2].headers
    /\ \A r \in RequestIds : requests[r].state = "fulfilled"
    /\ requests[1].result.status = 200 /\ requests[2].result.status = 404
    /\ calls[1].resolver # calls[2].resolver
    /\ \A c \in CallIds :
          calls[c].outcome = "resolved" /\ calls[c].value = CallRequest(c).result

(***************************************************************************)
(* SpecSnapshot: the setters of a builder before and after retrieve().     *)
(* post() has returned a builder; every setter is called on it in any      *)
(* order, and retrieve() dispatches it once.                               *)
(***************************************************************************)
Requester ==
    \E b \in BuilderIds :
       \/ RequestBuilder_baseURI(b, "https://api.example.com")
       \/ RequestBuilder_uri(b, "/users/1")
       \/ RequestBuilder_header(b, "Authorization", "Bearer token")
       \/ RequestBuilder_headers(b, [k \in {"Accept"} |-> "text/plain"])
       \/ Len(builders[b]._params) < MaxParams /\ RequestBuilder_param(b, <<"k">>, <<"v">>)
       \/ RequestBuilder_params(b, << << <<"k">>, <<"+">> >> >>)
       \/ RequestBuilder_timeout(b, LongTimeout)
       \/ RequestBuilder_body(b, ObjectLiteral(<< <<"k", 1>> >>))

NextSnapshot ==
    \/ Requester
    \/ \E b \in BuilderIds : Undispatched(b) /\ RequestBuilder_retrieve(b)

SpecSnapshot == InitBody /\ [][NextSnapshot]_vars

\* C25: retrieve() hands the transport the URI, method, headers, body and
\* timeout that the builder holds at that time, and no later step changes a
\* request that was dispatched.
C25_Snapshot ==
    [][/\ \A r \in RequestIds : requests'[r] = requests[r]
       /\ Dispatched =>
             /\ NewRequest.uri = createURI(DispatchedBuilder._baseUri,
                                           DispatchedBuilder._uri,
                                           DispatchedBuilder._params)
             /\ NewRequest.method = DispatchedBuilder.method
             /\ NewRequest.headers = Obj(SpreadMerge(DispatchedBuilder._defaultHeaders,
                                                     DispatchedBuilder._headers))
             /\ NewRequest.body = (IF Truthy(DispatchedBuilder._body)
                                   THEN JSONStringify(DispatchedBuilder._body)
                                   ELSE Undefined)
             /\ NewRequest.timeout = DispatchedBuilder._timeout]_vars

\* A request is in flight, and its builder has since been given another
\* base URI, path, headers, parameters, body and timeout: a retrieve() now
\* would differ from the request in flight in each of them.
C25_Witness ==
    \E r \in RequestIds :
       LET rq == requests[r]
           now == RequestBody(builders[rq.builder])
       IN  /\ rq.state = "pending"
           /\ rq.uri = Undefined
           /\ now.uri = Str("https://api.example.com/users/1?k=%2B&k=v")
           /\ now.headers # rq.headers
           /\ now.body # rq.body
           /\ now.timeout # rq.timeout

\* C29: a terminal call that passes its await on a rejected pending
\* response ends in that step, rejected with the error of the pending
\* response, without the handler having run, a response having been seen or
\* the body having been read; and after every step, a call whose handler
\* has run, which holds a response or which reads or has read the body is a
\* call on a fulfilled pending response.
C29_RejectedSkipsCallbacks ==
    [][\A c \in CallIds :
          LET rs == resolvers[calls[c].resolver]
              rq == requests[rs._response]
          IN  /\ (PassesAwait(c) /\ rq.state = "rejected") =>
                    /\ calls'[c].pc = "done"
                    /\ calls'[c].outcome = "rejected"
                    /\ calls'[c].value = rq.result
                    /\ calls'[c].inspected = 0
                    /\ calls'[c].response = NoResult
                    /\ requests' = requests
              /\ (\/ calls'[c].inspected > 0
                  \/ calls'[c].response # NoResult
                  \/ calls'[c].pc \in {"json", "text"}
                  \/ calls'[c].outcome = "resolved") =>
                    requests'[rs._response].state = "fulfilled"]_vars

\* The resolver has a handler and a converter, its pending response has
\* rejected, and toEntity() has rejected with the error of the transport,
\* neither of the two having run.
C29_Witness ==
    \E c \in CallIds :
       LET rs == resolvers[calls[c].resolver]
       IN  /\ Truthy(rs._handler) /\ Truthy(rs._converter)
           /\ CallRequest(c).state = "rejected"
           /\ CallRequest(c).result = Error("TypeError: fetch failed")
           /\ calls[c].method = "toEntity"
           /\ calls[c].outcome = "rejected"
           /\ calls[c].value = Error("TypeError: fetch failed")
           /\ calls[c].inspected = 0

(***************************************************************************)
(* SpecCase: header names that differ in letter case.  post() has returned *)
(* a builder, whose default headers hold Content-type; the builder is      *)
(* given headers under other spellings of that name and dispatched.        *)
(***************************************************************************)
CaseHeaders ==
    { <<"Content-Type", "text/plain">>, <<"CONTENT-TYPE", "text/html">>,
      <<"Accept", "text/plain">>, <<"Authorization", "Bearer token">> }

\* A header name in lower case: the names of a Header are case-insensitive.
Lower(name) ==
    CASE name \in {"Content-type", "Content-Type", "CONTENT-TYPE"} -> "content-type"
      [] name = "Accept" -> "accept"
      [] name = "Authorization" -> "authorization"
      [] OTHER -> name

NextCase ==
    \/ \E b \in BuilderIds, h \in CaseHeaders : RequestBuilder_header(b, h[1], h[2])
    \/ \E b \in BuilderIds : Len(requests) < MaxDispatches /\ RequestBuilder_retrieve(b)

SpecCase == InitBody /\ [][NextCase]_vars

\* C27: in the headers of a dispatched request no two names are the same
\* but for letter case, and a header whose name is, but for letter case, the
\* name of a per-request header has the value of such a per-request header.
C27_CaseInsensitiveMerge ==
    [][Dispatched =>
          LET sent == NewRequest.headers.m
              per == DispatchedBuilder._headers
          IN  /\ \A k1 \in DOMAIN sent, k2 \in DOMAIN sent :
                    Lower(k1) = Lower(k2) => k1 = k2
              /\ \A k \in DOMAIN sent :
                    (\E p \in DOMAIN per : Lower(p) = Lower(k)) =>
                       \E p \in DOMAIN per : Lower(p) = Lower(k) /\ sent[k] = per[p]]_vars

(***************************************************************************)
(* SpecAsync: a resolver with a handler that throws or with an async        *)
(* handler.  A request was dispatched; the resolver is given one of the    *)
(* two handlers, the transport fulfils the call and the terminal methods   *)
(* project the response.                                                   *)
(***************************************************************************)
AsyncHandlers == {Fn("rejectNot200"), Fn("asyncRejectNot200")}

NextAsync ==
    \/ \E res \in ResolverIds, handler \in AsyncHandlers : Resolver_handler(res, handler)
    \/ \E r \in RequestIds, response \in ResolverResponses : Fetch_fulfil(r, response)
    \/ Terminal

SpecAsync == InitResolver /\ [][NextAsync]_vars

\* C30: a terminal call that passes its await on a fulfilled response is
\* rejected with the error of the handler exactly when the handler throws;
\* when the handler returns a promise that rejects, the handler has run,
\* toVoid() and toResponse() resolve with their projection of the response,
\* and toEntity() goes on to read the body.
C30_HandlerReturnIgnored ==
    [][\A c \in CallIds :
          LET rs == resolvers[calls[c].resolver]
              rq == requests[rs._response]
          IN  (PassesAwait(c) /\ rq.state = "fulfilled") =>
                 /\ calls'[c].value = Error("HandlerError")
                       <=> HandlerThrows(rs._handler, rq.result.status)
                 /\ (rs._handler = Fn("asyncRejectNot200") /\ rq.result.status # 200) =>
                       /\ HandlerReturn(rs._handler, rq.result.status).state = "rejected"
                       /\ calls'[c].inspected = 1
                       /\ calls[c].method = "toResponse" =>
                             (calls'[c].outcome = "resolved" /\ calls'[c].value = rq.result)
                       /\ calls[c].method = "toVoid" =>
                             /\ calls'[c].outcome = "resolved"
                             /\ calls'[c].value = ResponseVoid_create(rq.result)
                       /\ calls[c].method = "toEntity" =>
                             /\ calls'[c].pc \in {"json", "text"}
                             /\ calls'[c].value = ResponseEntity_create(rq.result)]_vars

\* The async handler has returned a promise that rejects, on a response of
\* status 404, and toEntity() and toVoid() have resolved all the same, the
\* one with the body and the other with the status.
C30_Witness ==
    \E c1, c2 \in CallIds :
       /\ resolvers[calls[c1].resolver]._handler = Fn("asyncRejectNot200")
       /\ calls[c1].resolver = calls[c2].resolver
       /\ CallRequest(c1).state = "fulfilled"
       /\ CallRequest(c1).result.status = 404
       /\ calls[c1].inspected = 1 /\ calls[c2].inspected = 1
       /\ calls[c1].method = "toEntity" /\ calls[c1].outcome = "resolved"
       /\ calls[c1].value.data = Str(PlainText)
       /\ calls[c2].method = "toVoid" /\ calls[c2].outcome = "resolved"
       /\ calls[c2].value.status = 404

====
